---- MODULE Spec2Model ----
(***************************************************************************)
(* Model of the nrf-rc-link protocol layer: the CRC-8 checksum (crc.c),    *)
(* the 32-byte frame and the driver session of nrf_rc_driver.c (struct     *)
(* rc_link and the rc_link_* API), driven by a millisecond clock and a     *)
(* radio that presents frames.                                             *)
(***************************************************************************)
EXTENDS Integers, Sequences, FiniteSets, TLC

(***************************************************************************)
(* Program constants.                                                      *)
(***************************************************************************)
RC_LINK_TIMEOUT_MS == 1000
RC_LINK_LOSS_THRESHOLD == 10
RC_MAX_PAYLOAD_SIZE == 26
RC_PROTOCOL_VERSION == 1
\* config.h: rate of the rc_link_update calls
RC_UPDATE_RATE_HZ == 50
RC_PKT_COMMAND == 1
RC_PKT_TELEMETRY == 2
CRC8_POLYNOMIAL == 7
CRC8_INIT == 0
\* sizeof(rc_packet_header_t), sizeof(rc_packet_t)
HeaderSize == 5
PacketSize == 32
\* sizeof(rc_command_payload_t), sizeof(rc_telemetry_payload_t)
CommandSize == 18
TelemetrySize == 22
\* payload size the radio is configured with by rc_link_init
NrfPayloadSize == 32

(***************************************************************************)
(* Bounds of the model.                                                    *)
(***************************************************************************)
\* number of clock advances in a run
MaxTicks == 2
\* the same, in the runs that follow the sequence numbers
MaxSeqTicks == 3
\* number of frames a session accepts or rejects with a counted error (crc,
\* version) in a run
MaxAccept == 2
\* the same, in the runs that follow the sequence numbers
MaxSeqAccept == 3
\* number of frames a session transmits in a run: tx_sequence wraps at 256
MaxSent == 257
\* in the runs of update ticks: the longest row of update ticks without an
\* accepted frame, and the number of frames accepted
MaxUpdateTicks == 12
MaxTickFrames == 1
\* number of frames a session that also receives transmits in a run
MaxQualitySent == 2
\* in the runs over the whole API: number of calls that move the clock,
\* read a frame from the radio, hand one to it, or initialise or
\* deinitialise the session
MaxApiCalls == 2
\* in the runs that follow the transceiver calls: number of calls that hand
\* a frame to the radio or find one pending
MaxRadioCalls == 3
\* in the runs in which the time since the last frame passes 2^32 ms: number
\* of clock advances and of frames accepted or rejected
MaxWrapTicks == 5
MaxWrapAccept == 1
\* number of frames accepted in the runs that count what a session sends
\* and receives
MaxCountAccept == 1
\* in the runs of the link tracker of link.c: number of clock advances, of
\* rc_link_update calls and of frames marked received
MaxTrackerTicks == 2
MaxTrackerUpdates == 11
MaxTrackerFrames == 2

(***************************************************************************)
(* Fixed-width arithmetic.                                                 *)
(***************************************************************************)
U8(x) == x % 256

\* A uint32_t is a pair <<hi, lo>> of 16-bit halves, value hi * 2^16 + lo,
\* so that arithmetic mod 2^32 stays inside the checker's integers.
U32Of(n) == <<n \div 65536, n % 65536>>

\* UINT32_MAX, the "never received" sentinel of last_rx_time
UINT32_MAX == <<65535, 65535>>

\* (a + b) mod 2^32
U32Add(a, b) ==
    LET lo == a[2] + b[2]
    IN  <<(a[1] + b[1] + (lo \div 65536)) % 65536, lo % 65536>>

\* (a - b) mod 2^32
U32Sub(a, b) ==
    LET borrow == IF a[2] < b[2] THEN 1 ELSE 0
    IN  <<(a[1] - b[1] - borrow + 65536) % 65536, (a[2] - b[2] + 65536) % 65536>>

\* a > b, unsigned
U32Gt(a, b) == a[1] > b[1] \/ (a[1] = b[1] /\ a[2] > b[2])

\* (a * k) mod 2^32 for a small factor k
U32MulSmall(a, k) ==
    LET lo == a[2] * k
    IN  <<(a[1] * k + (lo \div 65536)) % 65536, lo % 65536>>

\* a / d for a divisor d below 2^15 (long division over the two halves)
U32DivSmall(a, d) ==
    LET r == a[1] % d
    IN  <<a[1] \div d, (r * 65536 + a[2]) \div d>>

\* a >= b, unsigned
U32Ge(a, b) == a[1] > b[1] \/ (a[1] = b[1] /\ a[2] >= b[2])

\* bit i (0..31) of a
U32Bit(a, i) ==
    IF i >= 16 THEN (a[1] \div 2^(i - 16)) % 2 ELSE (a[2] \div 2^i) % 2

\* ((a << 1) | bit) mod 2^32
U32Shl1(a, bit) ==
    <<(a[1] * 2 + (a[2] \div 32768)) % 65536, (a[2] * 2 + bit) % 65536>>

RECURSIVE U32DivBits(_, _, _, _, _)
\* a / d, d # 0, by binary long division: the bits i..0 of a are still to
\* be brought down, r is the remainder and q the quotient so far
U32DivBits(a, d, i, r, q) ==
    IF i < 0 THEN q
    ELSE LET r2   == U32Shl1(r, U32Bit(a, i))
             fits == r[1] >= 32768 \/ U32Ge(r2, d)
         IN  U32DivBits(a, d, i - 1,
                        IF fits THEN U32Sub(r2, d) ELSE r2,
                        U32Shl1(q, IF fits THEN 1 ELSE 0))

\* a / d on uint32_t
U32Div(a, d) == U32DivBits(a, d, 31, <<0, 0>>, <<0, 0>>)

RECURSIVE Xor8(_, _)
\* a ^ b on bytes
Xor8(a, b) ==
    IF a = 0 THEN b
    ELSE IF b = 0 THEN a
    ELSE (((a % 2) + (b % 2)) % 2) + 2 * Xor8(a \div 2, b \div 2)

Min(a, b) == IF a < b THEN a ELSE b
Max(a, b) == IF a > b THEN a ELSE b

(***************************************************************************)
(* crc.c                                                                   *)
(***************************************************************************)
RECURSIVE Crc8Bits(_, _)
\* the inner loop: `bit` remaining iterations of the shift/xor step
Crc8Bits(crc, bit) ==
    IF bit = 0 THEN crc
    ELSE Crc8Bits(IF crc >= 128 THEN Xor8(U8(crc * 2), CRC8_POLYNOMIAL)
                                 ELSE U8(crc * 2),
                  bit - 1)

\* one byte of input, as a table over the accumulator after the xor
Crc8Table == [x \in 0..255 |-> Crc8Bits(x, 8)]

RECURSIVE Crc8From(_, _, _, _)
Crc8From(crc, data, i, len) ==
    IF i > len THEN crc
    ELSE Crc8From(Crc8Table[Xor8(crc, data[i])], data, i + 1, len)

\* rc_crc8_calculate(data, len): data is the memory at the pointer
rc_crc8_calculate(data, len) == Crc8From(CRC8_INIT, data, 1, len)

(***************************************************************************)
(* packet.h: rc_packet_t and its wire bytes.                               *)
(***************************************************************************)
Zeros(n) == [i \in 1..n |-> 0]

ZeroPacket ==
    [version |-> 0, type |-> 0, sequence |-> 0, flags |-> 0, payload_len |-> 0,
     payload |-> Zeros(RC_MAX_PAYLOAD_SIZE), crc8 |-> 0]

\* (uint8_t*)&packet : the 32 bytes of the packed struct
PacketBytes(p) ==
    <<p.version, p.type, p.sequence, p.flags, p.payload_len>> \o p.payload \o <<p.crc8>>

\* memcpy(dst, src, n) into an array that keeps its length
Memcpy(dst, src, n) ==
    [i \in 1..Len(dst) |-> IF i <= n /\ i <= Len(src) THEN src[i] ELSE dst[i]]

(***************************************************************************)
(* config.h: payloads.  A payload is the byte image of the packed struct.  *)
(***************************************************************************)
\* RC_FAILSAFE_COMMAND: channels {1024,1024,0,1024,...} little-endian,
\* switches 0, mode 0
RC_FAILSAFE_COMMAND == <<0, 4, 0, 4, 0, 0, 0, 4, 0, 4, 0, 4, 0, 4, 0, 4, 0, 0>>

(***************************************************************************)
(* nrf_rc_driver.c: struct rc_link and the private functions.              *)
(***************************************************************************)
ZeroStats ==
    [packets_sent |-> 0, packets_received |-> 0, packets_missed |-> 0,
     crc_errors |-> 0, version_mismatches |-> 0, link_quality |-> 0]

\* memset(link, 0, sizeof(rc_link_t))
ZeroLink ==
    [initialized |-> FALSE, role |-> "RC_ROLE_GROUND",
     tx_sequence |-> 0, rx_sequence_last |-> 0,
     last_rx_time |-> U32Of(0), link_active |-> FALSE, consecutive_missed |-> 0,
     failsafe_command |-> Zeros(CommandSize), failsafe_active |-> FALSE,
     tx_packet |-> ZeroPacket, rx_packet |-> ZeroPacket,
     stats |-> ZeroStats]

\* rc_link_init with a valid handle and configuration; nrf_ok is the
\* outcome of nrf24_init
rc_link_init(nrf_ok) ==
    IF ~nrf_ok THEN [l |-> ZeroLink, ret |-> "RC_ERROR_HARDWARE"]
    ELSE [l |-> [ZeroLink EXCEPT !.role = "RC_ROLE_GROUND",
                                 !.tx_sequence = 0,
                                 !.rx_sequence_last = 0,
                                 !.last_rx_time = UINT32_MAX,
                                 !.link_active = FALSE,
                                 !.consecutive_missed = 0,
                                 !.failsafe_active = FALSE,
                                 !.failsafe_command = RC_FAILSAFE_COMMAND,
                                 !.stats = ZeroStats,
                                 !.initialized = TRUE],
          ret |-> "RC_OK"]

\* rc_link_get_time_since_rx, now = hw.get_tick_ms()
rc_link_get_time_since_rx(l, now) ==
    IF ~l.initialized \/ l.last_rx_time = UINT32_MAX THEN UINT32_MAX
    ELSE U32Sub(now, l.last_rx_time)

\* bool timeout = ...
TimeoutCond(time_since_rx) ==
    time_since_rx # UINT32_MAX /\ U32Gt(time_since_rx, U32Of(RC_LINK_TIMEOUT_MS))

\* bool sequence_gap = ...
SequenceGapCond(consecutive_missed) ==
    consecutive_missed >= RC_LINK_LOSS_THRESHOLD

\* link->link_active = !timeout && !sequence_gap
LinkActiveRule(timeout, sequence_gap) == ~timeout /\ ~sequence_gap

\* the "Link restored" branch without the reset
RestoredMissed_Keep(was_active, active, consecutive_missed) == consecutive_missed

\* the "Link restored" branch: consecutive_missed after the state change
RestoredMissed(was_active, active, consecutive_missed) ==
    IF ~was_active /\ active THEN 0 ELSE consecutive_missed

\* an update that also ends the failsafe when the link is restored
update_link_state_EndFailsafe(l, now) ==
    LET time_since_rx == rc_link_get_time_since_rx(l, now)
        was_active    == l.link_active
        timeout       == TimeoutCond(time_since_rx)
        sequence_gap  == SequenceGapCond(l.consecutive_missed)
        active        == LinkActiveRule(timeout, sequence_gap)
    IN  [l EXCEPT !.link_active = active,
                  !.consecutive_missed =
                      RestoredMissed(was_active, active, l.consecutive_missed),
                  !.failsafe_active = IF ~was_active /\ active THEN FALSE ELSE @]

update_link_state(l, now) ==
    LET time_since_rx == rc_link_get_time_since_rx(l, now)
        was_active    == l.link_active
        timeout       == TimeoutCond(time_since_rx)
        sequence_gap  == SequenceGapCond(l.consecutive_missed)
        active        == LinkActiveRule(timeout, sequence_gap)
    IN  [l EXCEPT !.link_active = active,
                  !.consecutive_missed =
                      RestoredMissed(was_active, active, l.consecutive_missed)]

\* the value stored in stats.link_quality
LinkQuality(packets_sent, packets_missed) ==
    IF packets_sent = 0 THEN 0
    ELSE LET received == U32Sub(U32Of(packets_sent), U32Of(packets_missed))
             q        == U8(U32DivSmall(U32MulSmall(received, 100), packets_sent)[2])
         IN  IF q > 100 THEN 100 ELSE q

\* the computation without the `> 100` test
LinkQuality32_NoClamp(packets_sent, packets_missed) ==
    IF packets_sent = <<0, 0>> THEN 0
    ELSE LET received == U32Sub(packets_sent, packets_missed)
         IN  U8(U32Div(U32MulSmall(received, 100), packets_sent)[2])

\* the value stored in stats.link_quality, for counters of any value
\* (uint32_t as pairs of 16-bit halves)
LinkQuality32(packets_sent, packets_missed) ==
    IF packets_sent = <<0, 0>> THEN 0
    ELSE LET received == U32Sub(packets_sent, packets_missed)
             q        == U8(U32Div(U32MulSmall(received, 100), packets_sent)[2])
         IN  IF q > 100 THEN 100 ELSE q

calculate_link_quality(l) ==
    [l EXCEPT !.stats.link_quality =
                  LinkQuality(l.stats.packets_sent, l.stats.packets_missed)]

\* encode_and_send; tx_ok is the outcome of nrf24_transmit
encode_and_send(l, type, payload, payload_len, tx_ok) ==
    IF payload_len > RC_MAX_PAYLOAD_SIZE
    THEN [l |-> l, status |-> "RC_ERROR_INVALID_PARAM", sent |-> FALSE]
    ELSE LET built == [l.tx_packet EXCEPT
                          !.version = RC_PROTOCOL_VERSION,
                          !.type = type,
                          !.sequence = l.tx_sequence,
                          !.flags = 0,
                          !.payload_len = payload_len,
                          !.payload = IF payload_len > 0
                                      THEN Memcpy(@, payload, payload_len) ELSE @]
             crc_len == U8(HeaderSize + payload_len)
             pkt == [built EXCEPT
                        !.crc8 = rc_crc8_calculate(PacketBytes(built), crc_len)]
         IN  [l |-> [l EXCEPT !.tx_packet = pkt],
              status |-> IF tx_ok THEN "RC_OK" ELSE "RC_ERROR_HARDWARE",
              sent |-> TRUE]

(***************************************************************************)
(* The frames on the air.                                                  *)
(***************************************************************************)
\* command and telemetry payload images used as data
CmdA == [i \in 1..CommandSize |-> 16 + i]
TlmA == [i \in 1..TelemetrySize |-> 64 + i]

\* sequence numbers carried by the frames on the air
CmdSeqs == {0, 11}
TlmSeqs == {0}
\* the sequence numbers of the runs that follow the sequence numbers:
\* 255 -> 0 is in sequence, 0 -> 2 misses 1, 2 -> 11 misses 8, 0 -> 11 misses 10
TrackSeqs == {255, 0, 2, 11}

\* the frame a peer session puts on the air for (type, payload, sequence)
PeerFrame(type, payload, seq) ==
    encode_and_send([rc_link_init(TRUE).l EXCEPT !.tx_sequence = seq],
                    type, payload, Len(payload), TRUE).l.tx_packet

\* uint8_t crc_len = sizeof(rc_packet_header_t) + header.payload_len
RxCrcLen(pkt) == U8(HeaderSize + pkt.payload_len)

\* the frame with its checksum byte set to the CRC the receiver expects
Resealed(pkt) ==
    [pkt EXCEPT !.crc8 = rc_crc8_calculate(PacketBytes(pkt), RxCrcLen(pkt))]

GoodFrames ==
    {PeerFrame(RC_PKT_COMMAND, CmdA, s) : s \in CmdSeqs}
        \cup {PeerFrame(RC_PKT_TELEMETRY, TlmA, s) : s \in TlmSeqs}

\* a command frame with one payload bit flipped in flight
CorruptFrame ==
    [PeerFrame(RC_PKT_COMMAND, CmdA, 0) EXCEPT !.payload[3] = Xor8(@, 1)]

\* a well-formed command frame of another protocol version
OtherVersionFrame ==
    Resealed([PeerFrame(RC_PKT_COMMAND, CmdA, 0) EXCEPT !.version = 2])

\* a command frame announcing 255 payload bytes, sealed over the 4 bytes
\* the receiver's 8-bit length then covers
LongLenFrame ==
    Resealed([PeerFrame(RC_PKT_COMMAND, CmdA, 11) EXCEPT !.payload_len = 255])

\* a command frame announcing 40 payload bytes: the receiver's CRC runs
\* past the end of rx_packet
OobLenFrame ==
    [PeerFrame(RC_PKT_COMMAND, CmdA, 11) EXCEPT !.payload_len = 40]

BadFrames == {CorruptFrame, OtherVersionFrame, LongLenFrame, OobLenFrame}

\* the command frames of the runs that follow the sequence numbers
TrackFrames == {PeerFrame(RC_PKT_COMMAND, CmdA, s) : s \in TrackSeqs}

AirFrames == GoodFrames \cup BadFrames \cup TrackFrames

\* rc_crc8_calculate over the part of each frame on the air that lies inside
\* rx_packet, computed once
AirFrameCrc ==
    [f \in AirFrames |->
        rc_crc8_calculate(PacketBytes(f), Min(RxCrcLen(f), PacketSize))]

\* uint8_t gap = header.sequence - (uint8_t)(rx_sequence_last + 1)
SeqGap(sequence, rx_sequence_last) ==
    U8(sequence - U8(rx_sequence_last + 1) + 256)

\* consecutive_missed (uint8_t) after the gap accounting
MissedAfter(consecutive_missed, gap) ==
    IF gap > 0 THEN U8(consecutive_missed + gap) ELSE 0

\* expected_crc: the CRC over crc_len bytes starting at rx_packet; beyond the
\* 32 bytes of rx_packet the read leaves the buffer and the result is
\* whatever memory holds (oob_crc)
ExpectedCrc(pkt, oob_crc) ==
    IF RxCrcLen(pkt) > PacketSize THEN oob_crc
    ELSE IF pkt \in AirFrames THEN AirFrameCrc[pkt]
    ELSE rc_crc8_calculate(PacketBytes(pkt), RxCrcLen(pkt))

\* the caller's payload struct: its bytes, and how many bytes a copy has
\* written past its end
CopyOut(buf, src, n) ==
    [bytes |-> Memcpy(buf.bytes, src, n),
     overrun |-> Max(buf.overrun, n - Len(buf.bytes))]

\* the gap accounted for every accepted frame, the first one included
TrackSequence_FromFirst(l, sequence) ==
    LET gap == SeqGap(sequence, l.rx_sequence_last)
    IN  [l EXCEPT !.consecutive_missed = MissedAfter(@, gap),
                  !.stats.packets_missed = IF gap > 0 THEN @ + gap ELSE @,
                  !.rx_sequence_last = sequence]

\* the sequence-gap block and rx_sequence_last update of receive_and_decode
TrackSequence(l, sequence) ==
    LET gap == SeqGap(sequence, l.rx_sequence_last)
        tracked == l.last_rx_time # UINT32_MAX
    IN  [l EXCEPT !.consecutive_missed =
                      IF tracked THEN MissedAfter(@, gap) ELSE @,
                  !.stats.packets_missed =
                      IF tracked /\ gap > 0 THEN @ + gap ELSE @,
                  !.rx_sequence_last = sequence]

\* the version test passing every frame
VersionMismatch_Never(pkt) == FALSE

\* if (rx_packet.header.version != RC_PROTOCOL_VERSION)
VersionMismatch(pkt) == pkt.version # RC_PROTOCOL_VERSION

\* receive_and_decode; rx is what the radio does in this call:
\* avail (nrf24_is_data_available), hw_ok (nrf24_receive), the frame read
\* and the out-of-buffer CRC outcome
receive_and_decode(l, expected_type, buf, rx) ==
    IF ~rx.avail THEN [l |-> l, status |-> "RC_ERROR_NO_DATA", buf |-> buf]
    ELSE IF ~rx.hw_ok THEN [l |-> l, status |-> "RC_ERROR_HARDWARE", buf |-> buf]
    ELSE LET l1  == [l EXCEPT !.rx_packet = rx.frame]
             pkt == l1.rx_packet
         IN  IF NrfPayloadSize < HeaderSize + 1
             THEN [l |-> l1, status |-> "RC_ERROR_CRC_FAIL", buf |-> buf]
             ELSE IF pkt.crc8 # ExpectedCrc(pkt, rx.oob_crc)
             THEN [l |-> [l1 EXCEPT !.stats.crc_errors = @ + 1],
                   status |-> "RC_ERROR_CRC_FAIL", buf |-> buf]
             ELSE IF VersionMismatch(pkt)
             THEN [l |-> [l1 EXCEPT !.stats.version_mismatches = @ + 1],
                   status |-> "RC_ERROR_VERSION_MISMATCH", buf |-> buf]
             ELSE IF pkt.type # expected_type
             THEN [l |-> l1, status |-> "RC_ERROR_NO_DATA", buf |-> buf]
             ELSE [l |-> TrackSequence(l1, pkt.sequence),
                   status |-> "RC_OK",
                   buf |-> IF pkt.payload_len > 0
                           THEN CopyOut(buf, pkt.payload, pkt.payload_len)
                           ELSE buf]

(***************************************************************************)
(* packet.c: the stand-alone codec.                                        *)
(***************************************************************************)
\* the packed struct read back from its 32 bytes
PacketOfBytes(b) ==
    [version |-> b[1], type |-> b[2], sequence |-> b[3], flags |-> b[4],
     payload_len |-> b[5],
     payload |-> [i \in 1..RC_MAX_PAYLOAD_SIZE |-> b[HeaderSize + i]],
     crc8 |-> b[PacketSize]]

\* rc_crc8: called by packet.c, defined nowhere in the repository; the
\* CRC-8 of crc.c
rc_crc8(data, len) == rc_crc8_calculate(data, len)

rc_packet_init(type, seq) ==
    [ZeroPacket EXCEPT !.version = RC_PROTOCOL_VERSION, !.type = type,
                       !.sequence = seq, !.flags = 0]

\* rc_packet_finalize for payload_len <= RC_MAX_PAYLOAD_SIZE; the write to
\* payload[payload_len] with payload_len = 26 lands on the crc8 byte of the
\* packed struct
rc_packet_finalize(pkt, payload_len) ==
    LET p1 == [pkt EXCEPT !.payload_len = payload_len]
        crc_len == HeaderSize + payload_len
    IN  PacketOfBytes([PacketBytes(p1) EXCEPT
                          ![crc_len + 1] = rc_crc8(PacketBytes(p1), crc_len)])

\* the largest payload_len rc_packet_validate lets through
PacketMaxLen == RC_MAX_PAYLOAD_SIZE - HeaderSize - 1

\* the length test with the whole payload capacity as the limit
LenInRange_Capacity(payload_len) == payload_len <= RC_MAX_PAYLOAD_SIZE

\* the negation of the second test of rc_packet_validate
LenInRange(payload_len) == payload_len <= PacketMaxLen

rc_packet_validate(pkt) ==
    IF pkt.version # RC_PROTOCOL_VERSION THEN FALSE
    ELSE IF ~LenInRange(pkt.payload_len) THEN FALSE
    ELSE rc_crc8(PacketBytes(pkt), HeaderSize + pkt.payload_len)
             = PacketBytes(pkt)[HeaderSize + pkt.payload_len + 1]

rc_encode_payload(type, payload, payload_len, seq) ==
    rc_packet_finalize([rc_packet_init(type, seq) EXCEPT
                           !.payload = Memcpy(@, payload, payload_len)],
                       payload_len)

\* rc_decode_payload into the caller's buffer buf
rc_decode_payload(pkt, buf, expected_len) ==
    IF ~rc_packet_validate(pkt) THEN [ret |-> FALSE, buf |-> buf]
    ELSE IF pkt.payload_len # expected_len THEN [ret |-> FALSE, buf |-> buf]
    ELSE [ret |-> TRUE, buf |-> CopyOut(buf, pkt.payload, expected_len)]

(***************************************************************************)
(* nrf_rc_driver.c: the API.  Every function gets a valid handle and valid *)
(* pointers; now is hw.get_tick_ms().                                      *)
(***************************************************************************)
\* failsafe only when nothing was pending
FailsafeCond_NoDataOnly(status, link_active) ==
    status = "RC_ERROR_NO_DATA" /\ ~link_active

\* failsafe on every failed receive, whatever the link state
FailsafeCond_AnyFailure(status, link_active) == status # "RC_OK"

\* "If link lost, return failsafe values": the condition of the branch
FailsafeCond(status, link_active) == status # "RC_OK" /\ ~link_active

\* the failsafe substituted on the first failed call only
rc_link_receive_command_FailsafeOnce(l, command, now, rx) ==
    IF ~l.initialized
    THEN [l |-> l, ret |-> "RC_ERROR_INVALID_PARAM", buf |-> command,
          status |-> "-"]
    ELSE LET l0 == [l EXCEPT !.role = "RC_ROLE_AIRCRAFT"]
             r  == receive_and_decode(l0, RC_PKT_COMMAND, command, rx)
         IN  IF r.status = "RC_OK"
             THEN [l |-> [r.l EXCEPT !.last_rx_time = now,
                                     !.failsafe_active = FALSE,
                                     !.stats.packets_received = @ + 1],
                   ret |-> "RC_OK", buf |-> r.buf, status |-> r.status]
             ELSE IF FailsafeCond(r.status, r.l.link_active)
                     /\ ~r.l.failsafe_active
             THEN [l |-> [r.l EXCEPT !.failsafe_active = TRUE],
                   ret |-> "RC_OK",
                   buf |-> CopyOut(r.buf, r.l.failsafe_command, CommandSize),
                   status |-> r.status]
             ELSE [l |-> r.l, ret |-> r.status, buf |-> r.buf,
                   status |-> r.status]

\* packets_received counted for a substituted failsafe command as well
rc_link_receive_command_CountFailsafe(l, command, now, rx) ==
    LET r == rc_link_receive_command_FailsafeOnce(l, command, now, rx)
        s == IF ~l.initialized THEN "-"
             ELSE receive_and_decode(l, RC_PKT_COMMAND, command, rx).status
    IN  IF l.initialized /\ s # "RC_OK" /\ FailsafeCond(s, l.link_active)
        THEN [l |-> [l EXCEPT !.role = "RC_ROLE_AIRCRAFT",
                              !.failsafe_active = TRUE,
                              !.stats.packets_received = @ + 1],
              ret |-> "RC_OK",
              buf |-> CopyOut(command, l.failsafe_command, CommandSize),
              status |-> s]
        ELSE r

rc_link_receive_command(l, command, now, rx) ==
    IF ~l.initialized
    THEN [l |-> l, ret |-> "RC_ERROR_INVALID_PARAM", buf |-> command,
          status |-> "-"]
    ELSE LET l0 == [l EXCEPT !.role = "RC_ROLE_AIRCRAFT"]
             r  == receive_and_decode(l0, RC_PKT_COMMAND, command, rx)
         IN  IF r.status = "RC_OK"
             THEN [l |-> [r.l EXCEPT !.last_rx_time = now,
                                     !.failsafe_active = FALSE,
                                     !.stats.packets_received = @ + 1],
                   ret |-> "RC_OK", buf |-> r.buf, status |-> r.status]
             ELSE IF FailsafeCond(r.status, r.l.link_active)
             THEN [l |-> [r.l EXCEPT !.failsafe_active = TRUE],
                   ret |-> "RC_OK",
                   buf |-> CopyOut(r.buf, r.l.failsafe_command, CommandSize),
                   status |-> r.status]
             ELSE [l |-> r.l, ret |-> r.status, buf |-> r.buf,
                   status |-> r.status]

\* last_rx_time stamped before the status is looked at
rc_link_receive_telemetry_StampFirst(l, telemetry, now, rx) ==
    IF ~l.initialized
    THEN [l |-> l, ret |-> "RC_ERROR_INVALID_PARAM", buf |-> telemetry,
          status |-> "-"]
    ELSE LET r == receive_and_decode(l, RC_PKT_TELEMETRY, telemetry, rx)
             stamped == [r.l EXCEPT !.last_rx_time = now]
         IN  IF r.status = "RC_OK"
             THEN [l |-> [stamped EXCEPT !.stats.packets_received = @ + 1],
                   ret |-> "RC_OK", buf |-> r.buf, status |-> r.status]
             ELSE [l |-> stamped, ret |-> r.status, buf |-> r.buf,
                   status |-> r.status]

rc_link_receive_telemetry(l, telemetry, now, rx) ==
    IF ~l.initialized
    THEN [l |-> l, ret |-> "RC_ERROR_INVALID_PARAM", buf |-> telemetry,
          status |-> "-"]
    ELSE LET r == receive_and_decode(l, RC_PKT_TELEMETRY, telemetry, rx)
         IN  IF r.status = "RC_OK"
             THEN [l |-> [r.l EXCEPT !.last_rx_time = now,
                                     !.stats.packets_received = @ + 1],
                   ret |-> "RC_OK", buf |-> r.buf, status |-> r.status]
             ELSE [l |-> r.l, ret |-> r.status, buf |-> r.buf,
                   status |-> r.status]

\* tx_sequence advanced whatever the transmit did
TxSequenceAfter_Always(status, tx_sequence) == U8(tx_sequence + 1)

\* link->tx_sequence++ (uint8_t) under `if (status == RC_OK)`
TxSequenceAfter(status, tx_sequence) ==
    IF status = "RC_OK" THEN U8(tx_sequence + 1) ELSE tx_sequence

\* stats.packets_sent++ under the same condition
PacketsSentAfter(status, packets_sent) ==
    IF status = "RC_OK" THEN packets_sent + 1 ELSE packets_sent

\* rc_link_send_command; tx_ok is the outcome of nrf24_transmit
rc_link_send_command(l, command, tx_ok) ==
    IF ~l.initialized THEN [l |-> l, ret |-> "RC_ERROR_INVALID_PARAM"]
    ELSE LET l0 == [l EXCEPT !.role = "RC_ROLE_GROUND"]
             r  == encode_and_send(l0, RC_PKT_COMMAND, command, CommandSize,
                                   tx_ok)
         IN  [l |-> [r.l EXCEPT
                        !.tx_sequence = TxSequenceAfter(r.status, @),
                        !.stats.packets_sent = PacketsSentAfter(r.status, @)],
              ret |-> r.status]

\* rc_link_send_telemetry
rc_link_send_telemetry(l, telemetry, tx_ok) ==
    IF ~l.initialized THEN [l |-> l, ret |-> "RC_ERROR_INVALID_PARAM"]
    ELSE LET r == encode_and_send(l, RC_PKT_TELEMETRY, telemetry,
                                  TelemetrySize, tx_ok)
         IN  [l |-> [r.l EXCEPT
                        !.tx_sequence = TxSequenceAfter(r.status, @),
                        !.stats.packets_sent = PacketsSentAfter(r.status, @)],
              ret |-> r.status]

rc_link_set_failsafe(l, failsafe) ==
    IF ~l.initialized THEN [l |-> l, ret |-> "RC_ERROR_INVALID_PARAM"]
    ELSE [l |-> [l EXCEPT !.failsafe_command =
                              Memcpy(@, failsafe, CommandSize)],
          ret |-> "RC_OK"]

rc_link_update(l, now) ==
    IF ~l.initialized
    THEN [l |-> l, ret |-> "RC_ERROR_INVALID_PARAM"]
    ELSE [l |-> calculate_link_quality(update_link_state(l, now)),
          ret |-> "RC_OK"]

\* rc_link_init on the session l: cfg_ok is the outcome of the parameter
\* check (!hw_config || !hw_config->get_tick_ms), which returns before the
\* session is touched
rc_link_init_call(l, cfg_ok, nrf_ok) ==
    IF ~cfg_ok THEN [l |-> l, ret |-> "RC_ERROR_INVALID_PARAM"]
    ELSE rc_link_init(nrf_ok)

rc_link_deinit(l) ==
    IF ~l.initialized THEN l ELSE [l EXCEPT !.initialized = FALSE]

rc_link_is_active(l) == IF ~l.initialized THEN FALSE ELSE l.link_active

\* a getter that hands back the compiled-in default
rc_link_get_failsafe_Default(l, buf) ==
    IF ~l.initialized THEN [ret |-> "RC_ERROR_INVALID_PARAM", buf |-> buf]
    ELSE [ret |-> "RC_OK", buf |-> CopyOut(buf, RC_FAILSAFE_COMMAND, CommandSize)]

\* rc_link_get_failsafe; buf is the caller's rc_command_payload_t
rc_link_get_failsafe(l, buf) ==
    IF ~l.initialized THEN [ret |-> "RC_ERROR_INVALID_PARAM", buf |-> buf]
    ELSE [ret |-> "RC_OK", buf |-> CopyOut(buf, l.failsafe_command, CommandSize)]

\* rc_link_get_stats; out is the caller's rc_stats_t
rc_link_get_stats(l, out) ==
    IF ~l.initialized THEN [ret |-> "RC_ERROR_INVALID_PARAM", out |-> out]
    ELSE [ret |-> "RC_OK", out |-> l.stats]

\* a statistics reset that also restarts the count of missed frames
rc_link_reset_stats_AndMissed(l) ==
    IF ~l.initialized THEN l
    ELSE [l EXCEPT !.stats = ZeroStats, !.consecutive_missed = 0]

rc_link_reset_stats(l) ==
    IF ~l.initialized THEN l ELSE [l EXCEPT !.stats = ZeroStats]

\* a receive that tries nrf24_receive once more when it failed
RadioCalls_Retry(op, l, x) ==
    IF ~l.initialized THEN <<>>
    ELSE IF op \in {"rc_link_send_command", "rc_link_send_telemetry"}
    THEN <<"nrf24_transmit">>
    ELSE IF op \in {"rc_link_receive_command", "rc_link_receive_telemetry"}
    THEN IF ~x.avail THEN <<"nrf24_is_data_available">>
         ELSE IF x.hw_ok THEN <<"nrf24_is_data_available", "nrf24_receive">>
         ELSE <<"nrf24_is_data_available", "nrf24_receive", "nrf24_receive">>
    ELSE <<>>

\* the calls an API function makes on the nRF24 driver, in order; x is what
\* the function meets: the outcome of the parameter check and of nrf24_init
\* for rc_link_init, the pending frame for the receive functions
RadioCalls(op, l, x) ==
    IF op = "rc_link_init"
    THEN IF ~x.cfg_ok THEN <<>>
         ELSE IF ~x.nrf_ok THEN <<"nrf24_init">>
         ELSE <<"nrf24_init", "nrf24_set_tx_power", "nrf24_set_data_rate",
                "nrf24_set_auto_retransmit", "nrf24_set_addresses">>
    ELSE IF ~l.initialized THEN <<>>
    ELSE IF op = "rc_link_deinit" THEN <<"nrf24_power_down">>
    ELSE IF op \in {"rc_link_send_command", "rc_link_send_telemetry"}
    THEN <<"nrf24_transmit">>
    ELSE IF op \in {"rc_link_receive_command", "rc_link_receive_telemetry"}
    THEN IF x.avail THEN <<"nrf24_is_data_available", "nrf24_receive">>
         ELSE <<"nrf24_is_data_available">>
    ELSE <<>>

(***************************************************************************)
(* The environment: the radio's behaviour in a call, the clock.             *)
(***************************************************************************)
\* the outcomes of a CRC that reads past rx_packet: equal to the stored
\* checksum byte, or not
OobCrcs(pkt) ==
    IF RxCrcLen(pkt) <= PacketSize THEN {0} ELSE {pkt.crc8, U8(pkt.crc8 + 1)}

NoData == [avail |-> FALSE, hw_ok |-> FALSE, frame |-> ZeroPacket, oob_crc |-> 0]
HwFail == [avail |-> TRUE, hw_ok |-> FALSE, frame |-> ZeroPacket, oob_crc |-> 0]

Present(frames) ==
    UNION {{[avail |-> TRUE, hw_ok |-> TRUE, frame |-> f, oob_crc |-> c] :
               c \in OobCrcs(f)} : f \in frames}

\* what the radio can do in one receive call
RadioInputs == {NoData, HwFail} \cup Present(GoodFrames \cup BadFrames)

\* the same, in the runs that follow the sequence numbers
TrackInputs == {NoData} \cup Present(TrackFrames)

\* the failsafe commands an application stores: the default, and one of its
\* own
CustomFailsafe == [i \in 1..CommandSize |-> 128 + i]
FailsafeChoices == {RC_FAILSAFE_COMMAND, CustomFailsafe}

RxKind(rx) == IF ~rx.avail THEN "none" ELSE IF ~rx.hw_ok THEN "hwfail" ELSE "frame"

\* clock advances between calls, in ms: two of them reach or pass the timeout
TickSteps == {500, 501}
\* the clock advance of the runs that do not follow the timeout closely
CoarseSteps == {600}
\* the clock value at which the session is initialised
StartTicks == {U32Sub(UINT32_MAX, U32Of(500))}

(***************************************************************************)
(* The codec at work on single frames: what is encoded, what the channel   *)
(* does to the frame, what the receiver expects.                           *)
(***************************************************************************)
CodecNames == {"packet.c", "driver"}
CodecTypes == {RC_PKT_COMMAND, RC_PKT_TELEMETRY}
\* sequence numbers of the encoded frames
CodecSeqs == {0, 30, 167}
\* payload lengths of the encoded frames: none, a command, the largest
\* rc_packet_validate lets through, the next one, telemetry, the capacity
CodecLens == {0, CommandSize, PacketMaxLen, PacketMaxLen + 1, TelemetrySize,
              RC_MAX_PAYLOAD_SIZE}
\* payload_len values a frame is re-labelled with
RelabelLens == CodecLens \cup {255}
\* version bytes a frame is re-labelled with
RelabelVersions == {0, 2}

\* the first len bytes of the payload image of the type
PayloadOf(type, len) ==
    [i \in 1..len |-> (IF type = RC_PKT_COMMAND THEN CmdA[1] ELSE TlmA[1])
                          + i - 1]

\* sizeof the payload struct of the type
PayloadSize(type) == IF type = RC_PKT_COMMAND THEN CommandSize ELSE TelemetrySize

\* x with bit `bit` inverted
FlipBit(x, bit) ==
    IF (x \div (2 ^ bit)) % 2 = 1 THEN x - 2 ^ bit ELSE x + 2 ^ bit

\* the frame with the checksum its own encoder would give the header and
\* payload it now has
Sealed(codec, pkt) ==
    IF codec = "driver" THEN Resealed(pkt)
    ELSE IF pkt.payload_len <= RC_MAX_PAYLOAD_SIZE
    THEN rc_packet_finalize(pkt, pkt.payload_len)
    ELSE pkt

\* the first byte (1..32) of the frame that neither payload[0..payload_len)
\* nor the checksum occupies: packet.c keeps the checksum at
\* payload[payload_len], the driver in crc8
TailStart(codec, pkt) ==
    HeaderSize + pkt.payload_len + (IF codec = "driver" THEN 1 ELSE 2)

\* the last byte the unused tail reaches to
TailEnd(codec) == IF codec = "driver" THEN PacketSize - 1 ELSE PacketSize

NoTamper == [kind |-> "none", byte |-> 0, bit |-> 0, val |-> 0]

\* what can happen to a frame between encoder and decoder
Tamperings ==
    {[kind |-> "flip", byte |-> b, bit |-> i, val |-> 0] :
         b \in 1..PacketSize, i \in 0..7}
    \cup {[kind |-> "version", byte |-> 0, bit |-> 0, val |-> v] :
              v \in RelabelVersions}
    \cup {[kind |-> "len", byte |-> 0, bit |-> 0, val |-> n] : n \in RelabelLens}
    \cup {[kind |-> "tail", byte |-> 0, bit |-> 0, val |-> 255]}

Tampered(codec, pkt, t) ==
    CASE t.kind = "none" -> pkt
      [] t.kind = "flip" ->
            PacketOfBytes([PacketBytes(pkt) EXCEPT
                              ![t.byte] = FlipBit(@, t.bit)])
      [] t.kind = "version" -> Sealed(codec, [pkt EXCEPT !.version = t.val])
      [] t.kind = "len" -> Sealed(codec, [pkt EXCEPT !.payload_len = t.val])
      [] t.kind = "tail" ->
            PacketOfBytes([i \in 1..PacketSize |->
                              IF i >= TailStart(codec, pkt) /\ i <= TailEnd(codec)
                              THEN Xor8(PacketBytes(pkt)[i], t.val)
                              ELSE PacketBytes(pkt)[i]])

\* the frame the codec builds
Encoded(codec, type, payload, len, seq) ==
    IF codec = "driver"
    THEN encode_and_send([rc_link_init(TRUE).l EXCEPT !.tx_sequence = seq],
                         type, payload, len, TRUE).l.tx_packet
    ELSE rc_encode_payload(type, payload, len, seq)

\* the caller's buffer of cap bytes
OutBuf(cap) == [bytes |-> Zeros(cap), overrun |-> 0]

CodecIdle ==
    [op |-> "idle", codec |-> "-", type |-> 0, seq |-> 0, len |-> 0,
     payload |-> <<>>, frame |-> ZeroPacket, t |-> NoTamper,
     sent |-> ZeroPacket, expected_type |-> 0, expected_len |-> 0,
     ok |-> FALSE, status |-> "-", out |-> OutBuf(0),
     l |-> rc_link_init(TRUE).l]

\* what the decoder is asked: the frame as sent, decoded as the type and
\* into a buffer of the length the encoder used or of a payload struct;
\* the frame after anything that can happen to it, decoded as what was sent
DecodeCases(e) ==
    {[t |-> NoTamper, expected_type |-> ty, expected_len |-> n] :
         ty \in CodecTypes, n \in {e.len, CommandSize, TelemetrySize}}
    \cup {[t |-> x, expected_type |-> e.type, expected_len |-> e.len] :
              x \in Tamperings}

VARIABLES
    app,        \* which application drives the session: the aircraft side
                \* (receive command) or the ground side (receive telemetry)
    link,       \* struct rc_link
    tick,       \* hw.get_tick_ms()
    command,    \* the caller's rc_command_payload_t
    telemetry,  \* the caller's rc_telemetry_payload_t
    call,       \* the last API call: its name, result and what it started from
    budget,     \* ticks, accepted and rejected frames so far
    g_uptime,   \* ms since rc_link_init
    g_since,    \* ms since the last accepted frame, -1 before the first
    g_missed,   \* frames inferred missed since the last in-sequence frame or
                \* link restoration, not reduced mod 256
    pk          \* the codec at work on one frame: what was encoded, what
                \* happened to the frame, what decoding it gave

vars == <<app, link, tick, command, telemetry, call, budget, g_uptime, g_since,
          g_missed, pk>>

CallRecord(op, ret, rx_status, rx_kind) ==
    [op |-> op, ret |-> ret, rx_status |-> rx_status, rx_kind |-> rx_kind,
     was_active |-> link.link_active]

Init ==
    /\ app \in {"aircraft", "ground"}
    /\ link = rc_link_init(TRUE).l
    /\ tick \in StartTicks
    /\ command = [bytes |-> Zeros(CommandSize), overrun |-> 0]
    /\ telemetry = [bytes |-> Zeros(TelemetrySize), overrun |-> 0]
    /\ call = [op |-> "rc_link_init", ret |-> "RC_OK", rx_status |-> "-",
               rx_kind |-> "-", was_active |-> FALSE]
    /\ budget = [ticks |-> 0, accepts |-> 0, rejects |-> 0]
    /\ g_uptime = 0
    /\ g_since = -1
    /\ g_missed = 0
    /\ pk = CodecIdle

\* the clock advances by d ms
Tick(steps, max_ticks) ==
    \E d \in steps :
        /\ budget.ticks < max_ticks
        /\ tick' = U32Add(tick, U32Of(d))
        /\ budget' = [budget EXCEPT !.ticks = @ + 1]
        /\ g_uptime' = g_uptime + d
        /\ g_since' = IF g_since = -1 THEN -1 ELSE g_since + d
        /\ call' = CallRecord("tick", "-", "-", "-")
        /\ UNCHANGED <<app, link, command, telemetry, g_missed, pk>>

CallUpdate ==
    LET r == rc_link_update(link, tick)
    IN  /\ link' = r.l
        /\ call' = CallRecord("rc_link_update", r.ret, "-", "-")
        /\ g_missed' = IF ~link.link_active /\ r.l.link_active THEN 0 ELSE g_missed
        /\ UNCHANGED <<app, tick, command, telemetry, budget, g_uptime, g_since,
                       pk>>

\* the application stores another failsafe command
CallSetFailsafe ==
    \E fs \in FailsafeChoices \ {link.failsafe_command} :
        LET r == rc_link_set_failsafe(link, fs)
        IN  /\ app = "aircraft"
            /\ link' = r.l
            /\ call' = CallRecord("rc_link_set_failsafe", r.ret, "-", "-")
            /\ UNCHANGED <<app, tick, command, telemetry, budget, g_uptime,
                           g_since, g_missed, pk>>

\* the budget after a receive call that ended in `status`
BudgetAfter(status) ==
    [budget EXCEPT !.accepts = IF status = "RC_OK" THEN @ + 1 ELSE @,
                   !.rejects = IF status \in {"RC_ERROR_CRC_FAIL",
                                              "RC_ERROR_VERSION_MISMATCH"}
                               THEN @ + 1 ELSE @]

WithinBudget(b, max_frames) == b.accepts + b.rejects <= max_frames

\* g_missed after a receive call that ended in `status` on frame `pkt`
MissedTotalAfter(status, pkt) ==
    IF status # "RC_OK" \/ g_since = -1 THEN g_missed
    ELSE LET gap == SeqGap(pkt.sequence, link.rx_sequence_last)
         IN  IF gap > 0 THEN g_missed + gap ELSE 0

CallReceiveCommand(inputs, max_accept) ==
    \E rx \in inputs :
        LET r == rc_link_receive_command(link, command, tick, rx)
        IN  /\ app = "aircraft"
            /\ WithinBudget(BudgetAfter(r.status), max_accept)
            /\ link' = r.l
            /\ command' = r.buf
            /\ call' = CallRecord("rc_link_receive_command", r.ret, r.status,
                                  RxKind(rx))
            /\ budget' = BudgetAfter(r.status)
            /\ g_since' = IF r.status = "RC_OK" THEN 0 ELSE g_since
            /\ g_missed' = MissedTotalAfter(r.status, rx.frame)
            /\ UNCHANGED <<app, tick, telemetry, g_uptime, pk>>

CallReceiveTelemetry(inputs, max_accept) ==
    \E rx \in inputs :
        LET r == rc_link_receive_telemetry(link, telemetry, tick, rx)
        IN  /\ app = "ground"
            /\ WithinBudget(BudgetAfter(r.status), max_accept)
            /\ link' = r.l
            /\ telemetry' = r.buf
            /\ call' = CallRecord("rc_link_receive_telemetry", r.ret, r.status,
                                  RxKind(rx))
            /\ budget' = BudgetAfter(r.status)
            /\ g_since' = IF r.status = "RC_OK" THEN 0 ELSE g_since
            /\ g_missed' = MissedTotalAfter(r.status, rx.frame)
            /\ UNCHANGED <<app, tick, command, g_uptime, pk>>

Next ==
    \/ Tick(CoarseSteps, MaxTicks)
    \/ CallUpdate
    \/ CallReceiveCommand(RadioInputs, MaxAccept)
    \/ CallReceiveTelemetry(RadioInputs, MaxAccept)
    \/ CallSetFailsafe

\* any call, any frame on the air
Spec == Init /\ [][Next]_vars

NextSeq ==
    \/ Tick(TickSteps, MaxSeqTicks)
    \/ CallUpdate
    \/ CallReceiveCommand(TrackInputs, MaxSeqAccept)

\* the aircraft side receiving well-formed command frames
SpecSeq == Init /\ [][NextSeq]_vars

\* the ground side sends a command; the transmit succeeds or fails
CallSendCommand(max_sent) ==
    \E tx_ok \in BOOLEAN :
        LET r == rc_link_send_command(link, CmdA, tx_ok)
        IN  /\ app = "ground"
            /\ link.stats.packets_sent < max_sent
            /\ link' = r.l
            /\ call' = CallRecord("rc_link_send_command", r.ret, "-", "-")
            /\ UNCHANGED <<app, tick, command, telemetry, budget, g_uptime,
                           g_since, g_missed, pk>>

\* the aircraft side sends telemetry
CallSendTelemetry(max_sent) ==
    \E tx_ok \in BOOLEAN :
        LET r == rc_link_send_telemetry(link, TlmA, tx_ok)
        IN  /\ app = "aircraft"
            /\ link.stats.packets_sent < max_sent
            /\ link' = r.l
            /\ call' = CallRecord("rc_link_send_telemetry", r.ret, "-", "-")
            /\ UNCHANGED <<app, tick, command, telemetry, budget, g_uptime,
                           g_since, g_missed, pk>>

NextSend ==
    \/ CallSendCommand(MaxSent)
    \/ CallSendTelemetry(MaxSent)
    \/ CallUpdate

\* a session that only transmits, long enough for tx_sequence to wrap
SpecSend == Init /\ [][NextSend]_vars

\* a frame is encoded, one in a run
CodecEncode ==
    \E codec \in CodecNames, type \in CodecTypes, seq \in CodecSeqs,
       len \in CodecLens :
        LET f == Encoded(codec, type, PayloadOf(type, len), len, seq)
        IN  /\ pk.op = "idle"
            /\ pk' = [CodecIdle EXCEPT !.op = "encode", !.codec = codec,
                                       !.type = type, !.seq = seq,
                                       !.len = len,
                                       !.payload = PayloadOf(type, len),
                                       !.frame = f, !.sent = f, !.l = link]
            /\ UNCHANGED <<app, link, tick, command, telemetry, call, budget,
                           g_uptime, g_since, g_missed>>

\* the frame, after what happened to it, is decoded: by rc_decode_payload,
\* or by receive_and_decode of a session in the state `link`
CodecDecode ==
    \E c \in DecodeCases(pk) :
        LET sent == Tampered(pk.codec, pk.frame, c.t)
            buf  == OutBuf(c.expected_len)
        IN  /\ pk.op = "encode"
            /\ \/ /\ pk.codec = "packet.c"
                  /\ LET r == rc_decode_payload(sent, buf, c.expected_len)
                     IN  pk' = [pk EXCEPT !.op = "decode", !.t = c.t,
                                          !.sent = sent,
                                          !.expected_type = c.expected_type,
                                          !.expected_len = c.expected_len,
                                          !.ok = r.ret, !.out = r.buf]
               \/ /\ pk.codec = "driver"
                  /\ \E oob \in OobCrcs(sent) :
                        LET r == receive_and_decode(
                                     link, c.expected_type, buf,
                                     [avail |-> TRUE, hw_ok |-> TRUE,
                                      frame |-> sent, oob_crc |-> oob])
                        IN  pk' = [pk EXCEPT !.op = "decode", !.t = c.t,
                                             !.sent = sent,
                                             !.expected_type = c.expected_type,
                                             !.expected_len = c.expected_len,
                                             !.ok = (r.status = "RC_OK"),
                                             !.status = r.status,
                                             !.out = r.buf, !.l = r.l]
            /\ UNCHANGED <<app, link, tick, command, telemetry, call, budget,
                           g_uptime, g_since, g_missed>>

\* payload lengths over the capacity: by one, by the frame size, the largest
OversizedLens == {RC_MAX_PAYLOAD_SIZE + 1, PacketSize, 255}

\* rc_encode_payload is void and tests nothing: memcpy writes payload_len
\* bytes from offset sizeof(header) of the packet and rc_packet_finalize one
\* more behind them; the number of these bytes that lie past the 32 bytes
\* of rc_packet_t
EncodePastFrame(payload_len) ==
    Max(0, HeaderSize + payload_len + 1 - PacketSize)

\* an encode of a payload longer than the capacity: what the codec
\* reports (status), whether it went on and built a frame (ok), how many
\* bytes it wrote past the frame, and the session after it
CodecEncodeOversized ==
    \E codec \in CodecNames, type \in CodecTypes, seq \in CodecSeqs,
       len \in OversizedLens :
        LET payload == [i \in 1..len |-> U8(i)]
            l0 == [link EXCEPT !.tx_sequence = seq]
            r  == encode_and_send(l0, type, payload, len, TRUE)
        IN  /\ pk.op = "idle"
            /\ \/ /\ codec = "driver"
                  /\ pk' = [CodecIdle EXCEPT
                                !.op = "oversized", !.codec = codec,
                                !.type = type, !.seq = seq, !.len = len,
                                !.status = r.status, !.ok = r.sent,
                                !.frame = r.l.tx_packet, !.l = r.l]
               \/ /\ codec = "packet.c"
                  /\ pk' = [CodecIdle EXCEPT
                                !.op = "oversized", !.codec = codec,
                                !.type = type, !.seq = seq, !.len = len,
                                !.status = "void", !.ok = TRUE,
                                !.out = [bytes |-> <<>>,
                                         overrun |-> EncodePastFrame(len)],
                                !.l = l0]
            /\ UNCHANGED <<app, link, tick, command, telemetry, call, budget,
                           g_uptime, g_since, g_missed>>

\* the frame as encoded is decoded by the other codec: the frame of
\* rc_encode_payload by receive_and_decode of a session in the state `link`
\* that expects its type, the frame of encode_and_send by rc_decode_payload
\* with the length that was encoded
CodecCrossDecode ==
    LET buf == OutBuf(pk.len)
    IN  /\ pk.op = "encode"
        /\ \/ /\ pk.codec = "driver"
              /\ LET r == rc_decode_payload(pk.frame, buf, pk.len)
                 IN  pk' = [pk EXCEPT !.op = "cross",
                                      !.expected_type = pk.type,
                                      !.expected_len = pk.len,
                                      !.ok = r.ret, !.out = r.buf]
           \/ /\ pk.codec = "packet.c"
              /\ \E oob \in OobCrcs(pk.frame) :
                    LET r == receive_and_decode(
                                 link, pk.type, buf,
                                 [avail |-> TRUE, hw_ok |-> TRUE,
                                  frame |-> pk.frame, oob_crc |-> oob])
                    IN  pk' = [pk EXCEPT !.op = "cross",
                                         !.expected_type = pk.type,
                                         !.expected_len = pk.len,
                                         !.ok = (r.status = "RC_OK"),
                                         !.status = r.status,
                                         !.out = r.buf, !.l = r.l]
        /\ UNCHANGED <<app, link, tick, command, telemetry, call, budget,
                       g_uptime, g_since, g_missed>>

NextCodec ==
    CodecEncode \/ CodecDecode \/ CodecEncodeOversized \/ CodecCrossDecode

\* the two codecs applied to single frames
SpecCodec == Init /\ [][NextCodec]_vars

\* a session that transmits and receives: the aircraft side sends telemetry
\* and receives commands, the ground side sends commands and receives
\* telemetry
NextQuality ==
    \/ CallSendCommand(MaxQualitySent)
    \/ CallSendTelemetry(MaxQualitySent)
    \/ CallReceiveCommand(TrackInputs, MaxSeqAccept)
    \/ CallReceiveTelemetry(RadioInputs, MaxAccept)
    \/ CallUpdate

SpecQuality == Init /\ [][NextQuality]_vars

(***************************************************************************)
(* The aircraft side called at a steady cadence: every update tick the     *)
(* clock has advanced by one period and rc_link_update runs.  Here         *)
(* budget.ticks counts the update ticks since the last accepted frame.     *)
(***************************************************************************)
\* the period of RC_UPDATE_RATE_HZ, and one five times as long
TickPeriods == {1000 \div RC_UPDATE_RATE_HZ, 5000 \div RC_UPDATE_RATE_HZ}

InitTicks ==
    /\ Init
    /\ app = "aircraft"

UpdateTick ==
    \E d \in TickPeriods :
        LET now == U32Add(tick, U32Of(d))
            r   == rc_link_update(link, now)
        IN  /\ budget.ticks < MaxUpdateTicks
            /\ tick' = now
            /\ link' = r.l
            /\ budget' = [budget EXCEPT !.ticks = @ + 1]
            /\ call' = CallRecord("rc_link_update", r.ret, "-", "-")
            /\ g_uptime' = g_uptime + d
            /\ g_since' = IF g_since = -1 THEN -1 ELSE g_since + d
            /\ UNCHANGED <<app, command, telemetry, g_missed, pk>>

\* rc_link_receive_command between two update ticks: nothing pending, or a
\* command frame
PollCommand ==
    \E rx \in {NoData} \cup Present({PeerFrame(RC_PKT_COMMAND, CmdA, 0)}) :
        LET r == rc_link_receive_command(link, command, tick, rx)
            accepted == r.status = "RC_OK"
        IN  /\ accepted => budget.accepts < MaxTickFrames
            /\ link' = r.l
            /\ command' = r.buf
            /\ call' = CallRecord("rc_link_receive_command", r.ret, r.status,
                                  RxKind(rx))
            /\ budget' = IF accepted
                         THEN [budget EXCEPT !.accepts = @ + 1, !.ticks = 0]
                         ELSE budget
            /\ g_since' = IF accepted THEN 0 ELSE g_since
            /\ UNCHANGED <<app, tick, telemetry, g_uptime, g_missed, pk>>

NextTicks == UpdateTick \/ PollCommand

SpecTicks == InitTicks /\ [][NextTicks]_vars

(***************************************************************************)
(* One session driven through the whole API of nrf_rc_driver.h, in any     *)
(* order.  Here `call` also records the nRF24 calls the function made (io) *)
(* and what it handed back to the caller (out).                            *)
(***************************************************************************)
\* the frames the radio hands over in these runs: commands 0 and 11 (a gap
\* of ten), a telemetry frame
ApiFrames ==
    {PeerFrame(RC_PKT_COMMAND, CmdA, 0), PeerFrame(RC_PKT_COMMAND, CmdA, 11),
     PeerFrame(RC_PKT_TELEMETRY, TlmA, 0)}

ApiInputs == {NoData} \cup Present(ApiFrames)

ApiRecord(op, ret, rx_status, io, out) ==
    [op |-> op, ret |-> ret, rx_status |-> rx_status, rx_kind |-> "-",
     was_active |-> FALSE, io |-> io, out |-> out]

ApiBudget == [calls |-> 0]

InitApi ==
    /\ app = "any"
    /\ link = rc_link_init(TRUE).l
    /\ tick \in StartTicks
    /\ command = [bytes |-> Zeros(CommandSize), overrun |-> 0]
    /\ telemetry = [bytes |-> Zeros(TelemetrySize), overrun |-> 0]
    /\ call = [op |-> "rc_link_init", ret |-> "RC_OK", rx_status |-> "-",
               rx_kind |-> "-", was_active |-> FALSE,
               io |-> RadioCalls("rc_link_init", ZeroLink,
                                 [cfg_ok |-> TRUE, nrf_ok |-> TRUE]),
               out |-> "-"]
    /\ budget = ApiBudget
    /\ g_uptime = 0
    /\ g_since = -1
    /\ g_missed = 0
    /\ pk = CodecIdle

ApiGhosts == <<app, g_uptime, g_since, g_missed, pk>>

ApiTick ==
    \E d \in CoarseSteps :
        /\ budget.calls < MaxApiCalls
        /\ tick' = U32Add(tick, U32Of(d))
        /\ budget' = [budget EXCEPT !.calls = @ + 1]
        /\ call' = ApiRecord("tick", "-", "-", <<>>, "-")
        /\ UNCHANGED <<link, command, telemetry>>
        /\ UNCHANGED ApiGhosts

ApiInit ==
    \E cfg_ok \in BOOLEAN, nrf_ok \in BOOLEAN :
        LET x == [cfg_ok |-> cfg_ok, nrf_ok |-> nrf_ok]
            r == rc_link_init_call(link, cfg_ok, nrf_ok)
        IN  /\ budget.calls < MaxApiCalls
            /\ link' = r.l
            /\ budget' = [budget EXCEPT !.calls = @ + 1]
            /\ call' = ApiRecord("rc_link_init", r.ret, "-",
                                 RadioCalls("rc_link_init", link, x), "-")
            /\ UNCHANGED <<tick, command, telemetry>>
            /\ UNCHANGED ApiGhosts

ApiDeinit ==
    /\ budget.calls < MaxApiCalls
    /\ link' = rc_link_deinit(link)
    /\ budget' = [budget EXCEPT !.calls = @ + 1]
    /\ call' = ApiRecord("rc_link_deinit", "-", "-",
                         RadioCalls("rc_link_deinit", link, "-"), "-")
    /\ UNCHANGED <<tick, command, telemetry>>
    /\ UNCHANGED ApiGhosts

ApiSendCommand ==
    \E tx_ok \in BOOLEAN :
        LET r == rc_link_send_command(link, CmdA, tx_ok)
        IN  /\ budget.calls < MaxApiCalls
            /\ link' = r.l
            /\ budget' = [budget EXCEPT !.calls = @ + 1]
            /\ call' = ApiRecord("rc_link_send_command", r.ret, "-",
                                 RadioCalls("rc_link_send_command", link, "-"),
                                 "-")
            /\ UNCHANGED <<tick, command, telemetry>>
            /\ UNCHANGED ApiGhosts

ApiSendTelemetry ==
    \E tx_ok \in BOOLEAN :
        LET r == rc_link_send_telemetry(link, TlmA, tx_ok)
        IN  /\ budget.calls < MaxApiCalls
            /\ link' = r.l
            /\ budget' = [budget EXCEPT !.calls = @ + 1]
            /\ call' = ApiRecord("rc_link_send_telemetry", r.ret, "-",
                                 RadioCalls("rc_link_send_telemetry", link, "-"),
                                 "-")
            /\ UNCHANGED <<tick, command, telemetry>>
            /\ UNCHANGED ApiGhosts

\* the budget after a receive call that met `rx`
ApiBudgetAfter(rx) ==
    [budget EXCEPT !.calls = IF rx.avail THEN @ + 1 ELSE @]

ApiReceiveCommand ==
    \E rx \in ApiInputs :
        LET r == rc_link_receive_command(link, command, tick, rx)
        IN  /\ ApiBudgetAfter(rx).calls <= MaxApiCalls
            /\ link' = r.l
            /\ command' = r.buf
            /\ budget' = ApiBudgetAfter(rx)
            /\ call' = ApiRecord("rc_link_receive_command", r.ret, r.status,
                                 RadioCalls("rc_link_receive_command", link, rx),
                                 rx.frame)
            /\ UNCHANGED <<tick, telemetry>>
            /\ UNCHANGED ApiGhosts

ApiReceiveTelemetry ==
    \E rx \in ApiInputs :
        LET r == rc_link_receive_telemetry(link, telemetry, tick, rx)
        IN  /\ ApiBudgetAfter(rx).calls <= MaxApiCalls
            /\ link' = r.l
            /\ telemetry' = r.buf
            /\ budget' = ApiBudgetAfter(rx)
            /\ call' = ApiRecord("rc_link_receive_telemetry", r.ret, r.status,
                                 RadioCalls("rc_link_receive_telemetry", link,
                                            rx),
                                 rx.frame)
            /\ UNCHANGED <<tick, command>>
            /\ UNCHANGED ApiGhosts

ApiUpdate ==
    LET r == rc_link_update(link, tick)
    IN  /\ link' = r.l
        /\ call' = ApiRecord("rc_link_update", r.ret, "-",
                             RadioCalls("rc_link_update", link, "-"), "-")
        /\ UNCHANGED <<tick, command, telemetry, budget>>
        /\ UNCHANGED ApiGhosts

ApiSetFailsafe ==
    \E fs \in FailsafeChoices :
        LET r == rc_link_set_failsafe(link, fs)
        IN  /\ link' = r.l
            /\ call' = ApiRecord("rc_link_set_failsafe", r.ret, "-",
                                 RadioCalls("rc_link_set_failsafe", link, "-"),
                                 fs)
            /\ UNCHANGED <<tick, command, telemetry, budget>>
            /\ UNCHANGED ApiGhosts

\* the getters, which hand a value back and leave the caller's payload
\* structures alone
ApiGetFailsafe ==
    LET r == rc_link_get_failsafe(link, OutBuf(CommandSize))
    IN  /\ call' = ApiRecord("rc_link_get_failsafe", r.ret, "-",
                             RadioCalls("rc_link_get_failsafe", link, "-"),
                             r.buf.bytes)
        /\ UNCHANGED <<link, tick, command, telemetry, budget>>
        /\ UNCHANGED ApiGhosts

ApiGetStats ==
    LET r == rc_link_get_stats(link, ZeroStats)
    IN  /\ call' = ApiRecord("rc_link_get_stats", r.ret, "-",
                             RadioCalls("rc_link_get_stats", link, "-"), r.out)
        /\ UNCHANGED <<link, tick, command, telemetry, budget>>
        /\ UNCHANGED ApiGhosts

ApiResetStats ==
    /\ link' = rc_link_reset_stats(link)
    /\ call' = ApiRecord("rc_link_reset_stats", "-", "-",
                         RadioCalls("rc_link_reset_stats", link, "-"), "-")
    /\ UNCHANGED <<tick, command, telemetry, budget>>
    /\ UNCHANGED ApiGhosts

ApiIsActive ==
    /\ call' = ApiRecord("rc_link_is_active", "-", "-",
                         RadioCalls("rc_link_is_active", link, "-"),
                         rc_link_is_active(link))
    /\ UNCHANGED <<link, tick, command, telemetry, budget>>
    /\ UNCHANGED ApiGhosts

ApiGetTimeSinceRx ==
    /\ call' = ApiRecord("rc_link_get_time_since_rx", "-", "-",
                         RadioCalls("rc_link_get_time_since_rx", link, "-"),
                         rc_link_get_time_since_rx(link, tick))
    /\ UNCHANGED <<link, tick, command, telemetry, budget>>
    /\ UNCHANGED ApiGhosts

NextApi ==
    \/ ApiTick
    \/ ApiInit
    \/ ApiDeinit
    \/ ApiSendCommand
    \/ ApiSendTelemetry
    \/ ApiReceiveCommand
    \/ ApiReceiveTelemetry
    \/ ApiUpdate
    \/ ApiSetFailsafe
    \/ ApiGetFailsafe
    \/ ApiGetStats
    \/ ApiResetStats
    \/ ApiIsActive
    \/ ApiGetTimeSinceRx

\* any API call on the session, in any order
SpecApi == InitApi /\ [][NextApi]_vars

(***************************************************************************)
(* The transceiver calls of one session: every send and receive call with  *)
(* what nrf24_transmit and nrf24_receive did in it.                         *)
(***************************************************************************)
RadioInputsApi == {NoData, HwFail} \cup Present(ApiFrames)

\* what the transceiver function of a call did: "-" when none was called
TransmitOutcome(io, tx_ok) ==
    IF \A i \in 1..Len(io) : io[i] # "nrf24_transmit" THEN "-"
    ELSE IF tx_ok THEN "ok" ELSE "failed"

ReceiveOutcome(io, rx) ==
    IF \A i \in 1..Len(io) : io[i] # "nrf24_receive" THEN "-"
    ELSE IF rx.hw_ok THEN "ok" ELSE "failed"

RadioSendCommand ==
    \E tx_ok \in BOOLEAN :
        LET r  == rc_link_send_command(link, CmdA, tx_ok)
            io == RadioCalls("rc_link_send_command", link, "-")
        IN  /\ budget.calls < MaxRadioCalls
            /\ link' = r.l
            /\ budget' = [budget EXCEPT !.calls = @ + 1]
            /\ call' = ApiRecord("rc_link_send_command", r.ret, "-", io,
                                 TransmitOutcome(io, tx_ok))
            /\ UNCHANGED <<tick, command, telemetry>>
            /\ UNCHANGED ApiGhosts

RadioSendTelemetry ==
    \E tx_ok \in BOOLEAN :
        LET r  == rc_link_send_telemetry(link, TlmA, tx_ok)
            io == RadioCalls("rc_link_send_telemetry", link, "-")
        IN  /\ budget.calls < MaxRadioCalls
            /\ link' = r.l
            /\ budget' = [budget EXCEPT !.calls = @ + 1]
            /\ call' = ApiRecord("rc_link_send_telemetry", r.ret, "-", io,
                                 TransmitOutcome(io, tx_ok))
            /\ UNCHANGED <<tick, command, telemetry>>
            /\ UNCHANGED ApiGhosts

RadioReceiveCommand ==
    \E rx \in RadioInputsApi :
        LET r  == rc_link_receive_command(link, command, tick, rx)
            io == RadioCalls("rc_link_receive_command", link, rx)
        IN  /\ ApiBudgetAfter(rx).calls <= MaxRadioCalls
            /\ link' = r.l
            /\ command' = r.buf
            /\ budget' = ApiBudgetAfter(rx)
            /\ call' = ApiRecord("rc_link_receive_command", r.ret, r.status,
                                 io, ReceiveOutcome(io, rx))
            /\ UNCHANGED <<tick, telemetry>>
            /\ UNCHANGED ApiGhosts

RadioReceiveTelemetry ==
    \E rx \in RadioInputsApi :
        LET r  == rc_link_receive_telemetry(link, telemetry, tick, rx)
            io == RadioCalls("rc_link_receive_telemetry", link, rx)
        IN  /\ ApiBudgetAfter(rx).calls <= MaxRadioCalls
            /\ link' = r.l
            /\ telemetry' = r.buf
            /\ budget' = ApiBudgetAfter(rx)
            /\ call' = ApiRecord("rc_link_receive_telemetry", r.ret, r.status,
                                 io, ReceiveOutcome(io, rx))
            /\ UNCHANGED <<tick, command>>
            /\ UNCHANGED ApiGhosts

NextRadio ==
    \/ RadioSendCommand
    \/ RadioSendTelemetry
    \/ RadioReceiveCommand
    \/ RadioReceiveTelemetry
    \/ ApiUpdate

\* a session that sends and receives, the transceiver failing at will
SpecRadio == InitApi /\ [][NextRadio]_vars

(***************************************************************************)
(* A long silence: the clock runs on for 2^32 ms after the last frame.     *)
(***************************************************************************)
\* clock advances, in ms: past the timeout, a quarter of 2^32, and what
\* is left of 2^32 after the first and three of the second
WrapSteps == {RC_LINK_TIMEOUT_MS + 1, 1073741824,
              1073741824 - (RC_LINK_TIMEOUT_MS + 1)}

\* the largest time the model keeps in g_uptime and g_since, which count
\* the milliseconds without wrapping
LongestCounted == 1073741823

\* the clock advances by d ms
LongTick ==
    \E d \in WrapSteps :
        /\ budget.ticks < MaxWrapTicks
        /\ tick' = U32Add(tick, U32Of(d))
        /\ budget' = [budget EXCEPT !.ticks = @ + 1]
        /\ g_uptime' = Min(g_uptime + d, LongestCounted)
        /\ g_since' = IF g_since = -1 THEN -1
                      ELSE Min(g_since + d, LongestCounted)
        /\ call' = CallRecord("tick", "-", "-", "-")
        /\ UNCHANGED <<app, link, command, telemetry, g_missed, pk>>

NextWrap ==
    \/ LongTick
    \/ CallUpdate
    \/ CallReceiveCommand(TrackInputs, MaxWrapAccept)

SpecWrap == Init /\ [][NextWrap]_vars

(***************************************************************************)
(* A session that sends until tx_sequence has wrapped and receives.        *)
(***************************************************************************)
\* what the radio does in a receive call of these runs
CountInputs ==
    {NoData} \cup Present({PeerFrame(RC_PKT_COMMAND, CmdA, 0),
                           PeerFrame(RC_PKT_TELEMETRY, TlmA, 0)})

NextCount ==
    \/ CallSendCommand(MaxSent)
    \/ CallSendTelemetry(MaxSent)
    \/ CallReceiveCommand(CountInputs, MaxCountAccept)
    \/ CallReceiveTelemetry(CountInputs, MaxCountAccept)

SpecCount == Init /\ [][NextCount]_vars

(***************************************************************************)
(* calculate_link_quality on counters of any size.                         *)
(***************************************************************************)
\* values of packets_sent and packets_missed: small ones, the ones around
\* 2^32 / 100 where received * 100 passes 2^32, and the largest
QualityCounts ==
    {<<0, 0>>, <<0, 1>>, <<0, 2>>, <<0, 3>>, <<0, 100>>, <<0, 255>>,
     <<0, 257>>, <<1, 0>>, <<655, 23592>>, <<655, 23593>>, <<32768, 0>>,
     <<65535, 65534>>, UINT32_MAX}

\* rc_link_update computes the link quality of a session whose counters
\* are `sent` and `missed`
QualityCompute ==
    \E sent \in QualityCounts, missed \in QualityCounts :
        /\ pk.op = "idle"
        /\ pk' = [CodecIdle EXCEPT
                     !.op = "quality",
                     !.out = [packets_sent |-> sent,
                              packets_missed |-> missed,
                              link_quality |-> LinkQuality32(sent, missed)]]
        /\ UNCHANGED <<app, link, tick, command, telemetry, call, budget,
                       g_uptime, g_since, g_missed>>

NextRange == QualityCompute

SpecRange == Init /\ [][NextRange]_vars

(***************************************************************************)
(* link.c: the stand-alone link tracker (rc_link_state_t).                 *)
(***************************************************************************)
UINT16_MAX == 65535

\* RC_PACKET_TIMEOUT_MS is defined by no header of the repository; the
\* build has to supply it, and the tracker is run with each of these
PacketTimeouts == {100, 1000}

\* rc_link_init of link.c
LinkC_rc_link_init(current_time_ms) ==
    [tx_seq |-> 0, rx_seq |-> 0, last_rx_time_ms |-> current_time_ms,
     missed_packets |-> 0, link_active |-> TRUE]

\* an update that counts a missed frame whatever the time since the last
\* one
LinkC_rc_link_update_CountAlways(l, current_time_ms, timeout) ==
    LET missed == IF l.missed_packets < UINT16_MAX
                  THEN l.missed_packets + 1 ELSE l.missed_packets
    IN  [l EXCEPT !.missed_packets = missed,
                  !.link_active =
                      IF missed >= RC_LINK_LOSS_THRESHOLD THEN FALSE ELSE @]

\* rc_link_update of link.c; timeout is RC_PACKET_TIMEOUT_MS
LinkC_rc_link_update(l, current_time_ms, timeout) ==
    LET time_since_rx == U32Sub(current_time_ms, l.last_rx_time_ms)
    IN  IF U32Gt(time_since_rx, U32Of(timeout))
        THEN LET missed == IF l.missed_packets < UINT16_MAX
                           THEN l.missed_packets + 1 ELSE l.missed_packets
             IN  [l EXCEPT !.missed_packets = missed,
                           !.link_active =
                               IF missed >= RC_LINK_LOSS_THRESHOLD
                               THEN FALSE ELSE @]
        ELSE l

\* rc_link_mark_received
rc_link_mark_received(l, seq, current_time_ms) ==
    [l EXCEPT !.last_rx_time_ms = current_time_ms,
              !.missed_packets = 0,
              !.link_active = TRUE,
              !.rx_seq = U8(seq + 1)]

\* clock advances of the tracker runs, in ms
TrackerSteps == {100, 901}
\* sequence numbers of the frames marked received
TrackerSeqs == {0, 255}

\* the tracker after rc_link_init, or late in a silence: timeout + 1 ms
\* after rc_link_init and UINT16_MAX - 2 updates at that time
InitTracker ==
    \E timeout \in PacketTimeouts, start \in StartTicks, late \in BOOLEAN :
        LET l0  == LinkC_rc_link_init(start)
            now == U32Add(start, U32Of(timeout + 1))
        IN  /\ app = [name |-> "link.c", RC_PACKET_TIMEOUT_MS |-> timeout]
            /\ tick = IF late THEN now ELSE start
            /\ link = IF late
                      THEN [l0 EXCEPT !.missed_packets = UINT16_MAX - 2,
                                      !.link_active = FALSE]
                      ELSE l0
            /\ g_since = IF late THEN timeout + 1 ELSE 0
            /\ g_uptime = g_since
            /\ g_missed = 0
            /\ command = [bytes |-> Zeros(CommandSize), overrun |-> 0]
            /\ telemetry = [bytes |-> Zeros(TelemetrySize), overrun |-> 0]
            /\ call = [op |-> "rc_link_init", ret |-> "-", rx_status |-> "-",
                       rx_kind |-> "-", was_active |-> FALSE]
            /\ budget = [ticks |-> 0, updates |-> 0, frames |-> 0,
                         peak |-> link.missed_packets]
            /\ pk = CodecIdle

TrackerTick ==
    \E d \in TrackerSteps :
        /\ budget.ticks < MaxTrackerTicks
        /\ tick' = U32Add(tick, U32Of(d))
        /\ budget' = [budget EXCEPT !.ticks = @ + 1]
        /\ g_uptime' = g_uptime + d
        /\ g_since' = g_since + d
        /\ call' = CallRecord("tick", "-", "-", "-")
        /\ UNCHANGED <<app, link, command, telemetry, g_missed, pk>>

TrackerUpdate ==
    LET l == LinkC_rc_link_update(link, tick, app.RC_PACKET_TIMEOUT_MS)
    IN  /\ budget.updates < MaxTrackerUpdates
        /\ link' = l
        /\ budget' = [budget EXCEPT !.updates = @ + 1,
                                    !.peak = Max(@, l.missed_packets)]
        /\ call' = CallRecord("rc_link_update", "-", "-", "-")
        /\ UNCHANGED <<app, tick, command, telemetry, g_uptime, g_since,
                       g_missed, pk>>

TrackerMarkReceived ==
    \E seq \in TrackerSeqs :
        /\ budget.frames < MaxTrackerFrames
        /\ link' = rc_link_mark_received(link, seq, tick)
        /\ budget' = [budget EXCEPT !.frames = @ + 1]
        /\ g_since' = 0
        /\ call' = CallRecord("rc_link_mark_received", "-", "-", "-")
        /\ UNCHANGED <<app, tick, command, telemetry, g_uptime, g_missed, pk>>

NextTracker == TrackerTick \/ TrackerUpdate \/ TrackerMarkReceived

SpecTracker == InitTracker /\ [][NextTracker]_vars

(***************************************************************************)
(* Properties.                                                             *)
(***************************************************************************)
ReceiveOps == {"rc_link_receive_command", "rc_link_receive_telemetry"}

\* the outcomes of receive_and_decode other than acceptance
RxFailures ==
    {"RC_ERROR_NO_DATA", "RC_ERROR_HARDWARE", "RC_ERROR_CRC_FAIL",
     "RC_ERROR_VERSION_MISMATCH"}

ExpectedType(op) ==
    IF op = "rc_link_receive_command" THEN RC_PKT_COMMAND ELSE RC_PKT_TELEMETRY

\* C1: a receive_command call whose receive ended in no-data or a failure
\* while link_active was false returned RC_OK with the caller's command
\* equal to the stored failsafe command.
C1_FailsafeSubstitution ==
    (/\ call.op = "rc_link_receive_command"
     /\ call.rx_status \in RxFailures
     /\ ~call.was_active)
        => (call.ret = "RC_OK" /\ command.bytes = link.failsafe_command)

\* a corrupted frame arrived after the link had timed out and the caller got
\* the failsafe command the application had stored
C1_Witness ==
    /\ call.op = "rc_link_receive_command"
    /\ call.rx_status = "RC_ERROR_CRC_FAIL"
    /\ ~call.was_active
    /\ g_since > RC_LINK_TIMEOUT_MS
    /\ call.ret = "RC_OK"
    /\ link.failsafe_command = CustomFailsafe
    /\ command.bytes = CustomFailsafe

\* C2 (as claimed): once a frame has been accepted, a receive_command call
\* that follows an update made more than RC_LINK_TIMEOUT_MS after the last
\* accepted frame, and accepts nothing, returns the failsafe command.
C2_BoundedFailsafe ==
    [][(/\ call.op = "rc_link_update"
        /\ g_since > RC_LINK_TIMEOUT_MS
        /\ call'.op = "rc_link_receive_command"
        /\ call'.rx_status \in RxFailures)
           => (call'.ret = "RC_OK" /\ command'.bytes = link'.failsafe_command)]_vars

\* C3 (as claimed): with no frame ever accepted, after an update link_active
\* is true exactly while no more than RC_LINK_TIMEOUT_MS have elapsed since
\* initialisation.
C3_TimeoutWithoutReception ==
    (call.op = "rc_link_update" /\ g_since = -1)
        => (link.link_active <=> g_uptime <= RC_LINK_TIMEOUT_MS)

\* C4: a receive_command call that found nothing pending while link_active
\* was true returned RC_ERROR_NO_DATA, left the caller's command as it was
\* and left failsafe_active as it was.
C4_MissedPollPropagates ==
    [][(/\ call'.op = "rc_link_receive_command"
        /\ call'.rx_kind = "none"
        /\ link.link_active)
           => (/\ call'.ret = "RC_ERROR_NO_DATA"
               /\ command' = command
               /\ link'.failsafe_active = link.failsafe_active)]_vars

\* nothing was pending on an active link that had accepted a command
C4_Witness ==
    /\ call.op = "rc_link_receive_command"
    /\ call.rx_kind = "none"
    /\ call.was_active
    /\ call.ret = "RC_ERROR_NO_DATA"
    /\ link.stats.packets_received > 0
    /\ ~link.failsafe_active
    /\ command.bytes = CmdA

\* C5 (as claimed): a receive call delivers a frame only if its version is
\* RC_PROTOCOL_VERSION, its type the expected one, its payload_len at most
\* RC_MAX_PAYLOAD_SIZE and its checksum the CRC-8 of header and
\* payload[0..payload_len); on every other outcome the caller's buffer gets
\* no received bytes (it is untouched or holds the failsafe command).
C5_OnlyValidFramesDelivered ==
    [][call'.op \in ReceiveOps =>
          IF call'.rx_status = "RC_OK"
          THEN LET pkt == link'.rx_packet
               IN  /\ pkt.version = RC_PROTOCOL_VERSION
                   /\ pkt.type = ExpectedType(call'.op)
                   /\ pkt.payload_len <= RC_MAX_PAYLOAD_SIZE
                   /\ pkt.crc8 = rc_crc8_calculate(PacketBytes(pkt),
                                                   HeaderSize + pkt.payload_len)
          ELSE /\ telemetry' = telemetry
               /\ \/ command' = command
                  \/ command' = CopyOut(command, link.failsafe_command,
                                        CommandSize)]_vars

\* C6: a receive call that ended in no-data, hardware failure, checksum
\* failure, version mismatch or type mismatch left rx_sequence_last,
\* consecutive_missed, last_rx_time, link_active, packets_received and
\* packets_missed as they were.
C6_RejectedFrameLeavesTracker ==
    [][(call'.op \in ReceiveOps /\ call'.rx_status \in RxFailures)
           => (/\ link'.rx_sequence_last = link.rx_sequence_last
               /\ link'.consecutive_missed = link.consecutive_missed
               /\ link'.last_rx_time = link.last_rx_time
               /\ link'.link_active = link.link_active
               /\ link'.stats.packets_received = link.stats.packets_received
               /\ link'.stats.packets_missed = link.stats.packets_missed)]_vars

\* the ground side, some time after an accepted frame, was handed a command
\* frame (type mismatch) with another sequence number
C6_Witness ==
    /\ call.op = "rc_link_receive_telemetry"
    /\ call.rx_kind = "frame"
    /\ call.rx_status = "RC_ERROR_NO_DATA"
    /\ link.rx_packet.type = RC_PKT_COMMAND
    /\ link.rx_packet.sequence # link.rx_sequence_last
    /\ link.stats.packets_received > 0
    /\ g_since > 0

\* C7 (as claimed): right after every update and right after every accepted
\* reception, link_active = NOT(time since the last accepted frame >
\* RC_LINK_TIMEOUT_MS) AND NOT(consecutive_missed >= RC_LINK_LOSS_THRESHOLD).
C7_RuleOnUpdateAndReception ==
    (\/ call.op = "rc_link_update"
     \/ (call.op \in ReceiveOps /\ call.rx_status = "RC_OK"))
        => (link.link_active <=>
               (/\ ~(g_since > RC_LINK_TIMEOUT_MS)
                /\ ~(link.consecutive_missed >= RC_LINK_LOSS_THRESHOLD)))

\* C8 (as claimed): an accepted frame with sequence s that follows an
\* accepted frame with sequence r has gap = (s - (r + 1)) mod 256; gap > 0
\* adds exactly gap to consecutive_missed, gap = 0 sets it to 0.
C8_GapAccounting ==
    [][(/\ call'.op \in ReceiveOps
        /\ call'.rx_status = "RC_OK"
        /\ g_since # -1)
           => LET gap == (link'.rx_packet.sequence
                            - (link.rx_sequence_last + 1) + 512) % 256
              IN  link'.consecutive_missed =
                      IF gap > 0 THEN link.consecutive_missed + gap ELSE 0]_vars

\* C9 (as claimed): an update made when the frames inferred missed since the
\* last in-sequence reception have reached RC_LINK_LOSS_THRESHOLD sets
\* link_active to false.
C9_ThresholdTrigger ==
    [][(call'.op = "rc_link_update" /\ g_missed >= RC_LINK_LOSS_THRESHOLD)
           => ~link'.link_active]_vars

\* C10: every change of link_active from false to true leaves
\* consecutive_missed at 0.
C10_RestoreResetsMissed ==
    [][(~link.link_active /\ link'.link_active)
           => link'.consecutive_missed = 0]_vars

\* an update restored the link after frame 2 had followed frame 0 (one
\* frame missed) and the count is back to 0
C10_Witness ==
    /\ call.op = "rc_link_update"
    /\ ~call.was_active
    /\ link.link_active
    /\ link.rx_sequence_last = 2
    /\ link.stats.packets_missed = 1
    /\ link.stats.packets_received = 2
    /\ g_since = 0
    /\ link.consecutive_missed = 0

\* C11 (as claimed): right after a successful initialisation tx_sequence,
\* rx_sequence_last, consecutive_missed and the statistics are zero,
\* last_rx_time is the "never" sentinel, failsafe_active is false and
\* link_active is true.
C11_InitialLinkState ==
    call.op = "rc_link_init" =>
        (/\ link.tx_sequence = 0
         /\ link.rx_sequence_last = 0
         /\ link.consecutive_missed = 0
         /\ link.stats = ZeroStats
         /\ link.last_rx_time = UINT32_MAX
         /\ ~link.failsafe_active
         /\ link.link_active)

SendOps == {"rc_link_send_command", "rc_link_send_telemetry"}

\* C12: the frame a send call hands to the transceiver carries the session's
\* tx_sequence; on success tx_sequence becomes (tx_sequence + 1) mod 256 and
\* packets_sent increases by 1; on failure the call returns
\* RC_ERROR_HARDWARE and both are unchanged.
C12_SendSequencing ==
    [][call'.op \in SendOps =>
          /\ link'.tx_packet.sequence = link.tx_sequence
          /\ call'.ret \in {"RC_OK", "RC_ERROR_HARDWARE"}
          /\ call'.ret = "RC_OK" =>
                /\ link'.tx_sequence = (link.tx_sequence + 1) % 256
                /\ link'.stats.packets_sent = link.stats.packets_sent + 1
          /\ call'.ret = "RC_ERROR_HARDWARE" =>
                /\ link'.tx_sequence = link.tx_sequence
                /\ link'.stats.packets_sent = link.stats.packets_sent]_vars

\* the 256th frame went out with sequence 255 and tx_sequence is back to 0
C12_Witness ==
    /\ call.op = "rc_link_send_command"
    /\ call.ret = "RC_OK"
    /\ link.tx_packet.sequence = 255
    /\ link.tx_sequence = 0
    /\ link.stats.packets_sent = 256

\* the frame went through untouched and is decoded as what was encoded
DecodedAsSent ==
    /\ pk.op = "decode"
    /\ pk.t = NoTamper
    /\ pk.expected_type = pk.type
    /\ pk.expected_len = pk.len

\* C13 (as claimed): for every type, sequence number and payload of length
\* 0..RC_MAX_PAYLOAD_SIZE, decoding the encoded frame succeeds and returns
\* exactly the payload bytes, with rc_decode_payload(rc_encode_payload) and
\* with receive_and_decode of the frame built by encode_and_send.
C13_CodecRoundTrip ==
    DecodedAsSent => (pk.ok /\ pk.out.bytes = pk.payload /\ pk.out.overrun = 0)

\* the round trip of the driver's codec alone
DriverRoundTrip ==
    (DecodedAsSent /\ pk.codec = "driver")
        => (pk.ok /\ pk.out.bytes = pk.payload /\ pk.out.overrun = 0)

\* the decoder's validation of a frame: rc_packet_validate, or
\* receive_and_decode (as the type sent) ending in RC_OK
PassesValidation(codec, pkt, type) ==
    IF codec = "packet.c" THEN rc_packet_validate(pkt)
    ELSE \E oob \in OobCrcs(pkt) :
            receive_and_decode(link, type, OutBuf(RC_MAX_PAYLOAD_SIZE),
                               [avail |-> TRUE, hw_ok |-> TRUE, frame |-> pkt,
                                oob_crc |-> oob]).status = "RC_OK"

\* C14 (as claimed): for every valid frame, a single bit flipped inside the
\* header or payload[0..payload_len) makes validation fail, and a change of
\* the unused payload tail beyond payload_len leaves the frame valid.
C14_ChecksumSensitivity ==
    (/\ pk.op = "decode"
     /\ PassesValidation(pk.codec, pk.frame, pk.type))
        => /\ (pk.t.kind = "flip" /\ pk.t.byte <= HeaderSize + pk.len)
                  => ~PassesValidation(pk.codec, pk.sent, pk.type)
           /\ pk.t.kind = "tail"
                  => PassesValidation(pk.codec, pk.sent, pk.type)

\* the tracker fields of the session that decoded are those it started with
TrackerUntouched ==
    /\ pk.l.rx_sequence_last = link.rx_sequence_last
    /\ pk.l.consecutive_missed = link.consecutive_missed
    /\ pk.l.last_rx_time = link.last_rx_time
    /\ pk.l.link_active = link.link_active
    /\ pk.l.stats.packets_received = link.stats.packets_received
    /\ pk.l.stats.packets_missed = link.stats.packets_missed

\* C15: a frame whose version byte differs from RC_PROTOCOL_VERSION is not
\* accepted, whatever its checksum, type, length or sequence: the decoder
\* fails, the caller's buffer is as it was and the tracker is as it was.
C15_VersionGate ==
    (pk.op = "decode" /\ pk.sent.version # RC_PROTOCOL_VERSION)
        => (/\ ~pk.ok
            /\ pk.out = OutBuf(pk.expected_len)
            /\ TrackerUntouched)

\* a telemetry frame of version 2 with the checksum of its own bytes was
\* turned down by the driver as a version mismatch
C15_Witness ==
    /\ pk.op = "decode"
    /\ pk.codec = "driver"
    /\ pk.type = RC_PKT_TELEMETRY
    /\ pk.len = TelemetrySize
    /\ pk.sent.version = 2
    /\ pk.sent.crc8 = rc_crc8_calculate(PacketBytes(pk.sent), HeaderSize + pk.len)
    /\ pk.status = "RC_ERROR_VERSION_MISMATCH"
    /\ pk.l.stats.version_mismatches = 1

\* C16 (as claimed): a frame whose payload_len exceeds RC_MAX_PAYLOAD_SIZE
\* fails validation whatever its checksum, and a frame whose payload_len is
\* within 0..RC_MAX_PAYLOAD_SIZE, with the right version and the checksum
\* of its header and payload, passes it.
C16_PayloadLengthGate ==
    pk.op = "decode" =>
        /\ pk.sent.payload_len > RC_MAX_PAYLOAD_SIZE
              => ~PassesValidation(pk.codec, pk.sent, pk.type)
        /\ (/\ pk.sent.payload_len <= RC_MAX_PAYLOAD_SIZE
            /\ pk.t.kind \in {"none", "len"})
              => PassesValidation(pk.codec, pk.sent, pk.type)

\* Number of frame bytes the checksum of a received frame is computed over
\* by the codec that decoded it: rc_packet_validate reaches the checksum
\* only after the version and length checks, receive_and_decode computes it
\* first.
ChecksumSpan(codec, pkt) ==
    IF codec = "driver" THEN RxCrcLen(pkt)
    ELSE IF pkt.version = RC_PROTOCOL_VERSION /\ LenInRange(pkt.payload_len)
         THEN HeaderSize + pkt.payload_len
         ELSE 0
\* C17 (as claimed): (a) the checksum of a received frame is never computed
\* over more than header + RC_MAX_PAYLOAD_SIZE bytes, and (b) a frame with a
\* wrong version is counted as a version mismatch and not as a checksum
\* error, even when its checksum is wrong as well.
C17_ValidationOrder ==
    pk.op = "decode" =>
        /\ ChecksumSpan(pk.codec, pk.sent) <= HeaderSize + RC_MAX_PAYLOAD_SIZE
        /\ (pk.codec = "driver" /\ pk.sent.version # RC_PROTOCOL_VERSION)
              => /\ pk.status = "RC_ERROR_VERSION_MISMATCH"
                 /\ pk.l.stats.version_mismatches = link.stats.version_mismatches + 1
                 /\ pk.l.stats.crc_errors = link.stats.crc_errors

\* C18 (as claimed): a frame is delivered only if its payload_len equals
\* the payload length of the requested type, and a decode never copies more
\* bytes than the caller's payload structure holds.
\* The caller decodes into the payload structure of the type it asks for.
C18_DecodeLengthCheck ==
    (pk.op = "decode" /\ pk.expected_len = PayloadSize(pk.expected_type)) =>
        /\ pk.ok => pk.sent.payload_len = PayloadSize(pk.expected_type)
        /\ pk.out.overrun = 0

\* what receive_and_decode returns when the radio has nothing pending
NothingPending ==
    receive_and_decode(link, pk.expected_type, OutBuf(pk.expected_len),
                       [avail |-> FALSE, hw_ok |-> TRUE, frame |-> ZeroPacket,
                        oob_crc |-> 0])
\* C19 (as claimed): a pending frame that is valid but of another type than
\* the expected one makes the receive call signal a failure other than the
\* one of nothing pending, and increment a statistic.
C19_TypeMismatchSignalled ==
    (/\ pk.op = "decode"
     /\ pk.codec = "driver"
     /\ pk.t.kind = "none"
     /\ pk.sent.type # pk.expected_type)
        => /\ ~pk.ok
           /\ pk.status # NothingPending.status
           /\ pk.l.stats # link.stats

\* a step in which rc_link_receive_command is called while link_active is
\* false and accepts no command
LostReceiveStep ==
    /\ call'.op = "rc_link_receive_command"
    /\ tick' = tick
    /\ ~link.link_active
    /\ call'.rx_status # "RC_OK"
\* what such a call does apart from the error counters: it returns RC_OK
\* with the stored failsafe command, leaves the stored command and the link
\* state alone, and failsafe_active is true after it (so it changes at most
\* once, from false to true)
FailsafeReturned ==
    /\ call'.ret = "RC_OK"
    /\ command'.bytes = link.failsafe_command
    /\ link'.failsafe_command = link.failsafe_command
    /\ ~link'.link_active
    /\ link'.failsafe_active
Counted(status) == IF call'.rx_status = status THEN 1 ELSE 0
\* C20 (as claimed): every rc_link_receive_command call made while
\* link_active is false that accepts no command returns the failsafe
\* payload, increments neither crc_errors nor version_mismatches, and
\* changes failsafe_active at most from false to true.
C20_AsClaimed ==
    [][LostReceiveStep =>
          /\ FailsafeReturned
          /\ link'.stats.crc_errors = link.stats.crc_errors
          /\ link'.stats.version_mismatches = link.stats.version_mismatches]_vars
\* C20 (amended): every such call returns the stored failsafe payload and
\* changes failsafe_active at most from false to true; crc_errors grows by
\* one exactly when the call read a frame with a wrong checksum,
\* version_mismatches by one exactly when it read a frame of another
\* version, and neither changes when nothing was pending.
C20_FailsafeIdempotence ==
    [][LostReceiveStep =>
          /\ FailsafeReturned
          /\ link'.stats.crc_errors =
                 link.stats.crc_errors + Counted("RC_ERROR_CRC_FAIL")
          /\ link'.stats.version_mismatches =
                 link.stats.version_mismatches
                     + Counted("RC_ERROR_VERSION_MISMATCH")]_vars
\* after a command was received and a failsafe command was stored, a call
\* made while link_active is false read a corrupted frame and returned the
\* stored failsafe command
C20_Witness ==
    /\ call.op = "rc_link_receive_command"
    /\ ~call.was_active
    /\ call.rx_status = "RC_ERROR_CRC_FAIL"
    /\ call.ret = "RC_OK"
    /\ link.stats.packets_received = 1
    /\ link.stats.crc_errors = 1
    /\ link.failsafe_active
    /\ link.failsafe_command = CustomFailsafe
    /\ command.bytes = CustomFailsafe

\* the payload bytes of the frame a receive call read, as long as the
\* caller's structure
FramePayload(frame, n) == SubSeq(frame.payload, 1, n)
\* C21 (as claimed): failsafe_active is set by the rc_link_receive_command
\* call that substitutes the failsafe command, every successful reception
\* after it clears it and hands the received payload to the caller, and no
\* other call on an initialised session changes it.
C21_FailsafeActiveLifecycle ==
    [][/\ (call'.op = "rc_link_receive_command" /\ call'.rx_status = "RC_OK")
            => /\ ~link'.failsafe_active
               /\ command'.bytes = FramePayload(call'.out, CommandSize)
       /\ (call'.op = "rc_link_receive_telemetry" /\ call'.rx_status = "RC_OK")
            => /\ ~link'.failsafe_active
               /\ telemetry'.bytes = FramePayload(call'.out, TelemetrySize)
       /\ (/\ call'.op = "rc_link_receive_command"
           /\ call'.rx_status # "RC_OK"
           /\ call'.ret = "RC_OK")
            => /\ link'.failsafe_active
               /\ command'.bytes = link.failsafe_command
       /\ (/\ call'.op \notin {"rc_link_receive_command",
                               "rc_link_receive_telemetry", "rc_link_init"})
            => link'.failsafe_active = link.failsafe_active]_vars

\* C22: on an initialised session rc_link_set_failsafe(f) stores f,
\* rc_link_get_failsafe returns the stored command, a substituting
\* rc_link_receive_command returns it, a successful rc_link_init stores the
\* default RC_FAILSAFE_COMMAND, and no call other than rc_link_set_failsafe
\* and rc_link_init changes the stored command.
C22_FailsafeSetGet ==
    [][/\ (call'.op = "rc_link_set_failsafe" /\ link.initialized)
            => /\ call'.ret = "RC_OK"
               /\ link'.failsafe_command = call'.out
       /\ (call'.op = "rc_link_get_failsafe" /\ link.initialized)
            => /\ call'.ret = "RC_OK"
               /\ call'.out = link.failsafe_command
       /\ (/\ call'.op = "rc_link_receive_command"
           /\ call'.rx_status # "RC_OK"
           /\ call'.ret = "RC_OK")
            => command'.bytes = link.failsafe_command
       /\ (call'.op = "rc_link_init" /\ call'.ret = "RC_OK")
            => link'.failsafe_command = RC_FAILSAFE_COMMAND
       /\ call'.op \notin {"rc_link_set_failsafe", "rc_link_init"}
            => link'.failsafe_command = link.failsafe_command]_vars
\* the command stored by rc_link_set_failsafe was substituted by
\* rc_link_receive_command and then read back by rc_link_get_failsafe
C22_Witness ==
    /\ call.op = "rc_link_get_failsafe"
    /\ call.ret = "RC_OK"
    /\ call.out = CustomFailsafe
    /\ link.failsafe_command = CustomFailsafe
    /\ link.failsafe_active
    /\ command.bytes = CustomFailsafe

\* clamp(100 * (sent - missed) / sent, 0, 100) over the integers, 0 when
\* nothing was sent
QualityFormula(sent, missed) ==
    IF sent = 0 THEN 0
    ELSE Max(0, Min(100, (100 * (sent - missed)) \div sent))
\* C23 (as claimed): after every rc_link_update of an initialised session
\* stats.link_quality is the clamped percentage of packets_sent not counted
\* in packets_missed.
C23_LinkQualityFormula ==
    (call.op = "rc_link_update" /\ call.ret = "RC_OK")
        => link.stats.link_quality =
               QualityFormula(link.stats.packets_sent, link.stats.packets_missed)

\* C24 (as claimed): after 12 update ticks in a row during which no frame
\* was received, link_active is false.
C24_UpdateTickLoss ==
    (call.op = "rc_link_update" /\ budget.ticks >= 12) => ~link.link_active

LinkStateBystanders ==
    {"rc_link_send_command", "rc_link_send_telemetry", "rc_link_set_failsafe",
     "rc_link_get_failsafe", "rc_link_get_stats", "rc_link_reset_stats",
     "rc_link_is_active", "rc_link_get_time_since_rx"}
LinkStateOf(l) ==
    <<l.rx_sequence_last, l.last_rx_time, l.consecutive_missed, l.link_active>>
\* C26: rx_sequence_last, last_rx_time, consecutive_missed and link_active
\* are left unchanged by the send functions, the failsafe setter and getter,
\* the statistics functions and the two queries, whether they succeed or
\* fail, and by a receive call that accepts no frame.
C26_LinkStateWriters ==
    [][(\/ call'.op \in LinkStateBystanders
        \/ /\ call'.op \in ReceiveOps
           /\ call'.rx_status # "RC_OK")
          => LinkStateOf(link') = LinkStateOf(link)]_vars
\* a send that failed in the radio, on a session whose link state has been
\* written by a reception and an update
C26_Witness ==
    /\ call.op = "rc_link_send_telemetry"
    /\ call.ret = "RC_ERROR_HARDWARE"
    /\ link.link_active
    /\ link.last_rx_time # UINT32_MAX
    /\ link.rx_sequence_last = 11

\* C27 (as claimed): rc_link_get_time_since_rx returns UINT32_MAX as long as
\* no frame was accepted, and afterwards the milliseconds elapsed since the
\* last accepted frame.
C27_TimeSinceRx ==
    rc_link_get_time_since_rx(link, tick) =
        IF g_since = -1 THEN UINT32_MAX ELSE U32Of(g_since)

\* the payload bytes of a frame at indices >= payload_len are all zero
TailZero(pkt) ==
    \A i \in (pkt.payload_len + 1)..RC_MAX_PAYLOAD_SIZE : pkt.payload[i] = 0
\* C28 (as claimed): in the frame a send function has built in the TX
\* buffer, every payload byte behind the payload is zero.
C28_EncodeZeroFill ==
    (call.op \in SendOps /\ link.initialized) => TailZero(link.tx_packet)

\* C29 (as claimed): an encode of a payload longer than RC_MAX_PAYLOAD_SIZE
\* fails with an error, builds and hands on nothing, writes nothing outside
\* the 32-byte frame, and leaves tx_sequence and packets_sent unchanged.
C29_OversizedRejected ==
    pk.op = "oversized" =>
        /\ pk.status = "RC_ERROR_INVALID_PARAM"
        /\ ~pk.ok
        /\ pk.out.overrun = 0
        /\ pk.l.tx_sequence = pk.seq
        /\ pk.l.stats.packets_sent = link.stats.packets_sent

\* the calls that report a status
StatusCalls ==
    {"rc_link_send_command", "rc_link_send_telemetry",
     "rc_link_receive_command", "rc_link_receive_telemetry",
     "rc_link_update", "rc_link_set_failsafe", "rc_link_get_failsafe",
     "rc_link_get_stats"}
\* the last call was an rc_link_init that failed, or an rc_link_deinit
SessionClosed ==
    \/ call.op = "rc_link_init" /\ call.ret # "RC_OK"
    \/ call.op = "rc_link_deinit"
\* C30 (as claimed): after a failed rc_link_init or after rc_link_deinit,
\* a send, receive, update, set_failsafe, get_failsafe or get_stats call
\* returns an error status, makes no radio call and changes no session
\* field, rc_link_is_active returns false and rc_link_get_time_since_rx
\* returns UINT32_MAX.
C30_ClosedSessionRejects ==
    [][SessionClosed =>
        /\ call'.op \in StatusCalls
            => /\ call'.ret \notin {"RC_OK", "-"}
               /\ call'.io = <<>>
               /\ link' = link
        /\ call'.op = "rc_link_is_active" => call'.out = FALSE
        /\ call'.op = "rc_link_get_time_since_rx" => call'.out = UINT32_MAX]_vars

\* the number of calls of the transceiver function `f` in a call's record
CallsOf(io, f) == Cardinality({i \in 1..Len(io) : io[i] = f})
\* C31: a send call calls nrf24_transmit at most once and a receive call
\* nrf24_receive at most once; a failed transmit or receive makes the same
\* call return RC_ERROR_HARDWARE, except that rc_link_receive_command on a
\* link that is not active returns RC_OK with the failsafe command.
C31_NoRetry ==
    [][/\ call'.op \in SendOps
            => /\ CallsOf(call'.io, "nrf24_transmit") <= 1
               /\ call'.out = "failed" => call'.ret = "RC_ERROR_HARDWARE"
       /\ call'.op \in ReceiveOps
            => /\ CallsOf(call'.io, "nrf24_receive") <= 1
               /\ CallsOf(call'.io, "nrf24_is_data_available") <= 1
               /\ call'.out = "failed"
                    => IF call'.op = "rc_link_receive_command"
                          /\ ~link.link_active
                       THEN /\ call'.ret = "RC_OK"
                            /\ command'.bytes = link.failsafe_command
                       ELSE call'.ret = "RC_ERROR_HARDWARE"]_vars

\* a receive call on an active link in which nrf24_receive failed, on a
\* session that has had a failed transmit
C31_Witness ==
    /\ call.op = "rc_link_receive_command"
    /\ call.out = "failed"
    /\ call.ret = "RC_ERROR_HARDWARE"
    /\ link.link_active
    /\ link.tx_packet.type = RC_PKT_COMMAND
    /\ link.stats.packets_sent = 0

\* C32 (as claimed): one accepted frame, a duplicate or an earlier sequence
\* number included, adds at most RC_LINK_LOSS_THRESHOLD to packets_missed
\* and to consecutive_missed.
C32_MissedPerReceptionCapped ==
    [][(call'.op \in ReceiveOps /\ call'.rx_status = "RC_OK")
        => /\ link'.stats.packets_missed - link.stats.packets_missed
                <= RC_LINK_LOSS_THRESHOLD
           /\ link'.consecutive_missed > link.consecutive_missed
                => link'.consecutive_missed - link.consecutive_missed
                       <= RC_LINK_LOSS_THRESHOLD]_vars

\* C33 (as claimed): failsafe_active implies that the link is not reported
\* active.
C33_FailsafeImpliesLost ==
    link.failsafe_active => ~link.link_active

\* C34 (as claimed): while more than RC_LINK_TIMEOUT_MS have passed since
\* the last accepted frame and the link is reported lost, an rc_link_update
\* keeps link_active false, whatever the value of the 32-bit clock.
C34_TimedOutStaysLost ==
    [][(/\ call'.op = "rc_link_update"
        /\ ~link.link_active
        /\ g_since > RC_LINK_TIMEOUT_MS)
        => ~link'.link_active]_vars

\* C35 (as claimed): consecutive_missed, once at RC_LINK_LOSS_THRESHOLD or
\* above, leaves that range only by going to 0, at the acceptance of an
\* in-sequence frame (gap 0) or at an rc_link_update that turns the link
\* from lost to active; an accepted frame with a gap never takes it below
\* the threshold.
C35_MissedStaysOverThreshold ==
    [][(/\ link.consecutive_missed >= RC_LINK_LOSS_THRESHOLD
        /\ link'.consecutive_missed < RC_LINK_LOSS_THRESHOLD)
        => /\ link'.consecutive_missed = 0
           /\ \/ /\ call'.op \in ReceiveOps
                 /\ call'.rx_status = "RC_OK"
                 /\ SeqGap(link'.rx_sequence_last, link.rx_sequence_last) = 0
              \/ /\ call'.op = "rc_link_update"
                 /\ ~link.link_active
                 /\ link'.link_active]_vars

\* the sequence numbers of a frame header
AllSeqs == 0..255
\* C36: the first frame a session accepts, whatever its sequence number,
\* leaves consecutive_missed and packets_missed unchanged and sets
\* rx_sequence_last to its sequence number.
C36_FirstFrameBaseline ==
    [][/\ (call'.op \in ReceiveOps /\ call'.rx_status = "RC_OK" /\ g_since = -1)
            => /\ link'.consecutive_missed = link.consecutive_missed
               /\ link'.stats.packets_missed = link.stats.packets_missed
               /\ link'.rx_sequence_last = link'.rx_packet.sequence
       /\ g_since = -1
            => \A s \in AllSeqs :
                  LET t == TrackSequence(link, s)
                  IN  /\ t.consecutive_missed = link.consecutive_missed
                      /\ t.stats.packets_missed = link.stats.packets_missed
                      /\ t.rx_sequence_last = s]_vars

\* the first frame accepted carried the sequence number 255, after an
\* rc_link_update
C36_Witness ==
    /\ call.op = "rc_link_receive_command"
    /\ call.rx_status = "RC_OK"
    /\ link.stats.packets_received = 1
    /\ link.rx_sequence_last = 255
    /\ link.consecutive_missed = 0
    /\ link.stats.packets_missed = 0
    /\ link.link_active

\* C37: in a session on which rc_link_reset_stats is not called,
\* tx_sequence = packets_sent mod 256 and packets_received is the number of
\* receive calls that handed a received payload to the caller.
C37_CountersFollowCalls ==
    /\ link.tx_sequence = link.stats.packets_sent % 256
    /\ link.stats.packets_received = budget.accepts

\* 256 frames sent, one received, and a failsafe command just substituted
C37_Witness ==
    /\ link.stats.packets_sent = 256
    /\ link.tx_sequence = 0
    /\ link.stats.packets_received = 1
    /\ call.op = "rc_link_receive_command"
    /\ call.ret = "RC_OK"
    /\ call.rx_status = "RC_ERROR_NO_DATA"

\* C38: stats.link_quality is within 0..100 for every value of the 32-bit
\* counters packets_sent and packets_missed, packets_missed > packets_sent
\* and products past 2^32 included.
C38_LinkQualityRange ==
    /\ link.stats.link_quality \in 0..100
    /\ pk.op = "quality" => pk.out.link_quality \in 0..100

\* one frame sent and two missed: received = 2^32 - 1, the product wraps,
\* the byte is 156 and the stored value 100
C38_Witness ==
    /\ pk.op = "quality"
    /\ pk.out.packets_sent = <<0, 1>>
    /\ pk.out.packets_missed = <<0, 2>>
    /\ pk.out.link_quality = 100

\* C39: the link tracker of link.c. A link reported lost has missed_packets
\* at RC_LINK_LOSS_THRESHOLD or above; rc_link_update never turns the link
\* from lost to active, never takes missed_packets past 65535 and leaves it
\* alone while the time since the last frame is within the timeout; the
\* link goes back to active only in rc_link_mark_received, which also sets
\* missed_packets to 0 and last_rx_time_ms to the current time.
C39_TrackerRules ==
    [][/\ ~link.link_active => link.missed_packets >= RC_LINK_LOSS_THRESHOLD
       /\ ~link'.link_active => link'.missed_packets >= RC_LINK_LOSS_THRESHOLD
       /\ call'.op = "rc_link_update"
            => /\ ~link.link_active => ~link'.link_active
               /\ link'.missed_packets <= UINT16_MAX
               /\ link'.missed_packets
                      \in {link.missed_packets, link.missed_packets + 1}
               /\ g_since <= app.RC_PACKET_TIMEOUT_MS
                      => link'.missed_packets = link.missed_packets
       /\ (~link.link_active /\ link'.link_active)
            => call'.op = "rc_link_mark_received"
       /\ call'.op = "rc_link_mark_received"
            => /\ link'.link_active
               /\ link'.missed_packets = 0
               /\ link'.last_rx_time_ms = tick]_vars

\* a frame is marked received on a tracker whose link was lost and whose
\* missed_packets had stopped at 65535
C39_Witness ==
    /\ call.op = "rc_link_mark_received"
    /\ ~call.was_active
    /\ link.link_active
    /\ link.missed_packets = 0
    /\ budget.peak = UINT16_MAX
    /\ budget.updates >= 3

\* C40 (as claimed): for every type, sequence number and payload of length
\* 0..26, the frame of rc_encode_payload is accepted by the driver's
\* receive_and_decode and the frame of encode_and_send by
\* rc_decode_payload, each handing back the payload that was encoded.
C40_CodecsAgree ==
    pk.op = "cross" => (pk.ok /\ pk.out.bytes = pk.payload /\ pk.out.overrun = 0)
====
